---- MODULE Spec2Model ----
(***************************************************************************)
(* Model of the agent orchestrator (app/agent/core.py) with the session    *)
(* store (app/agent/memory.py, app/memory/sqlite_store.py), the tool       *)
(* registry (app/agent/toolkit.py), the intent recognizer                  *)
(* (app/agent/intent.py) and the security guard                            *)
(* (app/guardrails/security_guard.py).                                     *)
(*                                                                         *)
(* A text is a sequence of tokens; an f-string is a concatenation of token *)
(* sequences.  A JSON document is a record tagged with its format, so that *)
(* json.loads of something that is not JSON fails as it does in the code.  *)
(***************************************************************************)
EXTENDS Integers, Sequences, FiniteSets, TLC

VARIABLES max_rounds, short_mem, msg_count, store, now, longterm, mask_map, pc, call, resp

vars == <<max_rounds, short_mem, msg_count, store, now, longterm, mask_map, pc, call, resp>>

\* ---------------------------------------------------------------- bounds
MaxRoundsCap == 2
MaxRows == 3
MaxIntents == 3
MaxLimit == 3
MaxAdds == 5
MaxMemRows == 2

\* ------------------------------------------------------ program constants
min_confidence == 50
short_mem_limit == 5
ReadLimit == 10
top_k == 3

Users == {"u1"}
Sessions == {"s1", "s2"}

\* ------------------------------------------------------------ text tables
Lower(tok) ==
    CASE tok = "Retry" -> "retry"
      [] tok = "RETRY" -> "retry"
      [] tok = "Weather" -> "weather"
      [] tok = "BOMB" -> "bomb"
      [] tok = "FIND" -> "find"
      [] OTHER -> tok

\* the lowercase tokens that have "retry" as a substring
RetryTokens == {"retry", "retrying"}

\* a comparison that forgets .lower()
HasRetryCaseSensitive(text) == \E i \in 1..Len(text) : text[i] \in RetryTokens

\* "retry" in user_reply.lower()
HasRetry(text) == \E i \in 1..Len(text) : Lower(text[i]) \in RetryTokens

Join(a, b) == a \o b

\* str.strip() of a token sequence: blank tokens at both ends removed
RECURSIVE LStrip(_)
LStrip(t) == IF t # <<>> /\ Head(t) = " " THEN LStrip(Tail(t)) ELSE t

RECURSIVE RStrip(_)
RStrip(t) == IF t # <<>> /\ t[Len(t)] = " " THEN RStrip(SubSeq(t, 1, Len(t) - 1)) ELSE t

Strip(t) == LStrip(RStrip(t))

\* ---------------------------------------------------------- fixed answers
LimitAnswer == <<"I reached the reasoning limit but couldn't complete the task. Please restate your question.">>
CancelAnswer == <<"Okay, operation cancelled. Anything else I can help with?">>
NoPendingAnswer == <<"No pending clarification found. Please start a new query.">>
NoteAck == <<"OK, I have noted the information down.">>
IssueAnswer == <<"Sorry, I encountered an issue while processing your request. Please try again.">>
ApologyAnswer == <<"Sorry, I couldn't generate a proper response. Please try rephrasing your question.">>
NoInfoAnswer == <<"I couldn't find relevant information for your question.">>
RefusalText == <<"sorry, I cannot answer this question">>

\* ------------------------------------------------------- security guard
Emails == {"bob@x.io", "amy@y.org"}
Mobiles == {"5551234567"}
IpAddrs == {"10.0.0.1"}

\* lowercase tokens that contain one of blocked_keywords as a substring
BlockedTokens == {"bomb", "kill"}

PiiOrder == <<"EMAIL", "MOBILE", "IPADDR">>

PiiType(tok) ==
    CASE tok \in Emails -> "EMAIL"
      [] tok \in Mobiles -> "MOBILE"
      [] tok \in IpAddrs -> "IPADDR"
      [] OTHER -> "NONE"

\* a placeholder numbered per type without a counter
MaskTokenPerType(ptype, i) ==
    CASE ptype = "EMAIL" -> "[EMAIL_1]"
      [] ptype = "MOBILE" -> "[MOBILE_1]"
      [] ptype = "IPADDR" -> "[IPADDR_1]"
      [] OTHER -> "[MASK_N]"

\* mask_token = f"[{ptype}_{mask_index}]"
MaskToken(ptype, i) ==
    CASE ptype = "EMAIL" /\ i = 1 -> "[EMAIL_1]"
      [] ptype = "EMAIL" /\ i = 2 -> "[EMAIL_2]"
      [] ptype = "EMAIL" /\ i = 3 -> "[EMAIL_3]"
      [] ptype = "MOBILE" /\ i = 1 -> "[MOBILE_1]"
      [] ptype = "MOBILE" /\ i = 2 -> "[MOBILE_2]"
      [] ptype = "MOBILE" /\ i = 3 -> "[MOBILE_3]"
      [] ptype = "IPADDR" /\ i = 1 -> "[IPADDR_1]"
      [] ptype = "IPADDR" /\ i = 2 -> "[IPADDR_2]"
      [] ptype = "IPADDR" /\ i = 3 -> "[IPADDR_3]"
      [] OTHER -> "[MASK_N]"

\* a keyword scan that forgets .lower()
HasBlockedCaseSensitive(text) == \E i \in 1..Len(text) : text[i] \in BlockedTokens

\* any(bad in lowered for bad in self.blocked_keywords)
HasBlocked(text) == \E i \in 1..Len(text) : Lower(text[i]) \in BlockedTokens

\* one pattern's finditer loop of inbound: matches replaced left to right
RECURSIVE MaskMatches(_, _, _, _)
MaskMatches(acc, i, ptype, text) ==
    IF i > Len(text) THEN acc
    ELSE IF PiiType(text[i]) = ptype
         THEN MaskMatches(
                [text |-> [acc.text EXCEPT ![i] = MaskToken(ptype, acc.mask_index)],
                 mask_index |-> acc.mask_index + 1,
                 mask_map |-> Append(acc.mask_map,
                                     [mask |-> MaskToken(ptype, acc.mask_index),
                                      original |-> text[i]])],
                i + 1, ptype, text)
         ELSE MaskMatches(acc, i + 1, ptype, text)

RECURSIVE MaskTypes(_, _)
MaskTypes(acc, k) ==
    IF k > Len(PiiOrder) THEN acc
    ELSE MaskTypes(MaskMatches(acc, 1, PiiOrder[k], acc.text), k + 1)

\* an inbound that builds the mask map and passes the text on as it came
inbound_unmasked(text, old_map) ==
    IF HasBlocked(text)
    THEN [safe |-> FALSE, text |-> RefusalText, mask_map |-> old_map]
    ELSE [safe |-> TRUE, text |-> text,
          mask_map |-> MaskTypes([text |-> text, mask_index |-> 1, mask_map |-> <<>>], 1).mask_map]

\* SecurityGuard.inbound: the mask map is rebuilt only on the safe path
inbound(text, old_map) ==
    IF HasBlocked(text)
    THEN [safe |-> FALSE, text |-> RefusalText, mask_map |-> old_map]
    ELSE LET m == MaskTypes([text |-> text, mask_index |-> 1, mask_map |-> <<>>], 1)
         IN  [safe |-> TRUE, text |-> m.text, mask_map |-> m.mask_map]

\* str.replace of one token by another
ReplaceTok(text, from, to) == [i \in 1..Len(text) |-> IF text[i] = from THEN to ELSE text[i]]

SanitizeTok(tok) ==
    CASE tok = "5551234567" -> "555****67"
      [] tok = "bob@x.io" -> "b***@x.io"
      [] tok = "amy@y.org" -> "a***@y.org"
      [] tok \in IpAddrs -> "[REDACTED_IP]"
      [] OTHER -> tok

\* SecurityGuard._sanitize_pii_output
sanitize_pii_output(text) == [i \in 1..Len(text) |-> IF PiiType(text[i]) # "NONE" THEN SanitizeTok(text[i]) ELSE text[i]]

RECURSIVE Restore(_, _, _)
Restore(text, map, k) ==
    IF k > Len(map) THEN text
    ELSE Restore(ReplaceTok(text, map[k].mask, map[k].original), map, k + 1)

\* SecurityGuard.outbound
outbound(text, map) ==
    IF HasBlocked(text)
    THEN [safe |-> FALSE, text |-> RefusalText]
    ELSE [safe |-> TRUE, text |-> Restore(sanitize_pii_output(text), map, 1)]

\* the loop of _secure_outbound: mask_map maps placeholder -> original and the
\* loop variables are named the other way round, so every original value in
\* the answer is replaced by its placeholder
RECURSIVE Remask(_, _, _)
Remask(text, map, k) ==
    IF k > Len(map) THEN text
    ELSE Remask(ReplaceTok(text, map[k].original, map[k].mask), map, k + 1)

\* Agent._secure_outbound applied to the answer text
secure_outbound_text(answer, map) == outbound(Remask(answer, map, 1), map).text

\* ------------------------------------------------------- JSON documents
\* the value None
NoneValue ==
    [fmt |-> "none", obj |-> "none", clarification_type |-> "", original_query |-> <<>>,
     pending_steps |-> <<>>, longterm_saved |-> 0, conversation_history |-> <<>>]

\* json.dumps of the pending_context dict of handle
PendingJson(ctype, query, steps) ==
    [fmt |-> "json", obj |-> "object", clarification_type |-> ctype, original_query |-> query,
     pending_steps |-> steps, longterm_saved |-> 0, conversation_history |-> <<>>]

\* json.dumps of the session_data dict of handle
ContextJson(history, saved) ==
    [fmt |-> "json", obj |-> "object", clarification_type |-> "", original_query |-> <<>>,
     pending_steps |-> <<>>, longterm_saved |-> saved, conversation_history |-> history]

\* contents no handle call writes: not JSON, JSON that is no object, an
\* object with a clarification_type resume does not know
GarbageText == [NoneValue EXCEPT !.fmt = "text"]
JsonList == [NoneValue EXCEPT !.fmt = "json", !.obj = "list"]
UnknownTypeJson == PendingJson("needs_review", <<"old", "query">>, <<>>)

StalePending == {GarbageText, JsonList, UnknownTypeJson}

\* json.loads(content) raises / returns something without .get
LoadsRaises(content) == content.fmt # "json"
IsObject(content) == content.fmt = "json" /\ content.obj = "object"

\* ------------------------------------------------- SQLiteStore (memories)
Row(user_id, namespace, mtype, content, created_at) ==
    [user_id |-> user_id, namespace |-> namespace, type |-> mtype,
     content |-> content, created_at |-> created_at]

\* SQLiteStore.write: INSERT, nothing is replaced
store_write(st, user_id, namespace, mtype, content, t) ==
    Append(st, Row(user_id, namespace, mtype, content, t))

\* a delete that removes only the last row written to the key
store_delete_latest(st, user_id, namespace, mtype) ==
    LET mine == {i \in 1..Len(st) :
                   st[i].user_id = user_id /\ st[i].namespace = namespace /\ st[i].type = mtype}
        last == {i \in mine : \A j \in mine : j <= i}
    IN  [k \in 1..(Len(st) - Cardinality(last)) |-> IF \E i \in last : k >= i THEN st[k + 1] ELSE st[k]]

\* a clear that selects the rows by namespace only
session_clear_namespace(st, user_id, session_id) ==
    SelectSeq(st, LAMBDA r : r.namespace # session_id)

\* SessionMemory.clear: DELETE ... WHERE user_id=? AND namespace=?
session_clear(st, user_id, session_id) ==
    SelectSeq(st, LAMBDA r : ~(r.user_id = user_id /\ r.namespace = session_id))

\* SQLiteStore.delete: every row of the key
store_delete(st, user_id, namespace, mtype) ==
    SelectSeq(st, LAMBDA r : ~(r.user_id = user_id /\ r.namespace = namespace /\ r.type = mtype))

\* a write of None that leaves the rows in place
session_write_keep(st, user_id, session_id, key, value, t) ==
    IF value = NoneValue THEN st
    ELSE store_write(st, user_id, session_id, key, value, t)

\* SessionMemory.write: None is a tombstone
session_write(st, user_id, session_id, key, value, t) ==
    IF value = NoneValue
    THEN store_delete(st, user_id, session_id, key)
    ELSE store_write(st, user_id, session_id, key, value, t)

NsRows(st, user_id, namespace) ==
    {i \in 1..Len(st) : st[i].user_id = user_id /\ st[i].namespace = namespace}

\* SessionMemory.read over SQLiteStore.read: the rows of the namespace
\* ORDER BY created_at DESC LIMIT 10, then the first row of the key.  Rows
\* of the same second come in an order SQL leaves open, so the result is a
\* set: a row of the key can come first when it has the latest second of
\* its key and fewer than ReadLimit rows are strictly newer; None can come
\* when ReadLimit rows of other keys can be placed before every row of the key.
session_read(st, user_id, session_id, key) ==
    LET ns == NsRows(st, user_id, session_id)
        mine == {i \in ns : st[i].type = key}
        newest(i) == \A j \in mine : st[j].created_at <= st[i].created_at
        newer(i) == {j \in ns : st[j].created_at > st[i].created_at}
        before == {j \in ns \ mine : \E i \in mine : newest(i) /\ st[j].created_at >= st[i].created_at}
    IN  {st[i].content : i \in {k \in mine : newest(k) /\ Cardinality(newer(k)) < ReadLimit}}
          \cup (IF mine = {} \/ Cardinality(before) >= ReadLimit THEN {NoneValue} ELSE {})

\* created_at is int(time.time()) and is read by ORDER BY only: the seconds
\* are renumbered 0, 1, 2, ... in their order, the current second with them
Stamps(st) == {st[i].created_at : i \in 1..Len(st)}
Rank(S, x) == Cardinality({y \in S : y < x})
Renumber(st) == [i \in 1..Len(st) |-> [st[i] EXCEPT !.created_at = Rank(Stamps(st), @)]]
Clock(st, t) == Rank(Stamps(st), t)

\* ------------------------------------------------------ ShortTermMemory
\* a message dict; seq is the ordinal of the message among all the messages
\* ever added to a short-term buffer, which tells two equal texts apart
Msg(role, content) == [role |-> role, content |-> content, seq |-> 0]

\* an add that drops the entry just appended when the buffer is full
buffer_add_keep_oldest(buffer, limit, entry) ==
    IF Len(buffer) >= limit THEN buffer ELSE Append(buffer, entry)

\* ShortTermMemory.add on a buffer of capacity limit: append, then pop(0)
\* when the length exceeds the limit
buffer_add(buffer, limit, entry) ==
    LET b == Append(buffer, entry)
    IN  IF Len(b) > limit THEN Tail(b) ELSE b

\* Agent.short_mem.add: the buffer of the agent has capacity short_mem_limit
short_add(buffer, role, content, seq) ==
    buffer_add(buffer, short_mem_limit, [Msg(role, content) EXCEPT !.seq = seq])

\* --------------------------------------------------- LongTermMemoryStore
\* store_conversation: one document per message with a non-empty content
RECURSIVE Docs(_, _, _, _, _)
Docs(user_id, session_id, messages, start_index, offset) ==
    IF offset >= Len(messages) THEN <<>>
    ELSE LET m == messages[offset + 1]
             rest == Docs(user_id, session_id, messages, start_index, offset + 1)
         IN  IF m.content = <<>> THEN rest
             ELSE <<[user_id |-> user_id, session_id |-> session_id,
                     turn_index |-> start_index + offset, text |-> m.content,
                     seq |-> m.seq]>> \o rest

store_conversation(lt, user_id, session_id, messages, start_index) ==
    lt \o Docs(user_id, session_id, messages, start_index, 0)

\* handle calls search(text, top_k=3, user_id=.., session_id=..) but
\* LongTermMemoryStore.search takes (query, top_k) only: the call raises
\* TypeError, handle catches it and goes on with no hits
longterm_search(lt, query, user_id, session_id) == <<>>

\* a hit of the long-term search
Hit(chunk) == [chunk |-> chunk]

\* "\n".join(f" Previous memory: {c['chunk']}" for c in longterm_context)
RECURSIVE memory_summary(_)
memory_summary(hits) ==
    IF hits = <<>> THEN <<>>
    ELSE <<"Previous memory:", Head(hits).chunk>> \o memory_summary(Tail(hits))

\* a merge that puts one system turn per hit in front of the short-term turns
merge_context_per_hit(short_context, longterm_context) ==
    [i \in 1..Len(longterm_context) |->
        Msg("system", <<"Previous memory:", longterm_context[i].chunk>>)] \o short_context

\* Agent._merge_context
merge_context(short_context, longterm_context) ==
    IF longterm_context # <<>>
    THEN Append(short_context, Msg("system", memory_summary(longterm_context)))
    ELSE short_context

\* ------------------------------------------------------ IntentRecognizer
Intent(name, confidence) == [name |-> name, confidence |-> confidence]

Clarification(message, options) ==
    [type |-> "clarification", message |-> message, options |-> options, intents |-> <<>>]

LowConfidenceClar ==
    Clarification(<<"Intent confidence too low. Please clarify your goal.">>,
                  <<"Weather", "Emails", "Knowledge search">>)
AmbiguousClar ==
    Clarification(<<"Your request seems ambiguous. Please clarify:">>,
                  <<"Check weather", "Summarize emails", "Search knowledge base">>)

IntentList(intents) == [type |-> "intents", intents |-> intents]

\* the keyword lists of _fallback_recognition, by lowercase token
WeatherKw == {"weather", "forecast"}
EmailKw == {"email", "inbox"}
RecallKw == {"history"}
QaKw == {"what", "explain"}
SearchKw == {"find", "search"}

HasKw(text, kws) == \E i \in 1..Len(text) : Lower(text[i]) \in kws

\* a keyword fallback without the default branch
fallback_recognition_partial(text) ==
    IF HasKw(text, WeatherKw) THEN <<Intent("get_weather", 80)>>
    ELSE IF HasKw(text, EmailKw) THEN <<Intent("summarize_emails", 75)>>
    ELSE <<>>

\* IntentRecognizer._fallback_recognition
fallback_recognition(text) ==
    IF HasKw(text, WeatherKw) THEN <<Intent("get_weather", 80)>>
    ELSE IF HasKw(text, EmailKw) THEN <<Intent("summarize_emails", 75)>>
    ELSE IF HasKw(text, RecallKw) THEN <<Intent("recall_conversation", 80)>>
    ELSE IF HasKw(text, QaKw) THEN <<Intent("general_qa", 75)>>
    ELSE IF HasKw(text, SearchKw) THEN <<Intent("query_knowledge", 70)>>
    ELSE <<Intent("general_qa", 60)>>

\* an entry of the "intents" array that is not a JSON object: intent_data.get
\* raises AttributeError, which recognize catches
NonDictEntry == [kind |-> "not_an_object"]

IsDictEntry(e) == e # NonDictEntry

\* the entries at which the loop over data["intents"] leaves the function
Stops(entries) ==
    {i \in 1..Len(entries) :
        ~IsDictEntry(entries[i]) \/ entries[i].confidence < min_confidence}

First(S) == CHOOSE i \in S : \A j \in S : i <= j

\* a parser that drops the intents below min_confidence and keeps the others
parse_llm_response_partial(out, text) ==
    IF out.malformed THEN IntentList(fallback_recognition(text))
    ELSE IF \E i \in 1..Len(out.intents) : ~IsDictEntry(out.intents[i])
         THEN IntentList(fallback_recognition(text))
         ELSE LET kept == SelectSeq(out.intents, LAMBDA e : e.confidence >= min_confidence)
              IN  IF kept = <<>> /\ out.intents # <<>> THEN LowConfidenceClar
                  ELSE IF out.ambiguous /\ kept = <<>> THEN AmbiguousClar
                  ELSE IF kept = <<>> THEN IntentList(fallback_recognition(text))
                  ELSE IntentList(kept)

\* IntentRecognizer._parse_llm_response on a classifier output
\* [malformed, ambiguous, intents], with the except clause of recognize: the
\* entries are read in order, the first one below min_confidence turns the
\* whole result into a clarification, the first one that is not an object
\* raises and gives the keyword fallback
parse_llm_response(out, text) ==
    IF out.malformed THEN IntentList(fallback_recognition(text))
    ELSE IF Stops(out.intents) # {}
         THEN IF IsDictEntry(out.intents[First(Stops(out.intents))])
              THEN LowConfidenceClar
              ELSE IntentList(fallback_recognition(text))
         ELSE IF out.ambiguous /\ out.intents = <<>> THEN AmbiguousClar
         ELSE IF out.intents = <<>> THEN IntentList(fallback_recognition(text))
         ELSE IntentList(out.intents)

\* Agent._recognize_intents over IntentRecognizer.recognize
recognize_intents(out, text) == parse_llm_response(out, text)

\* --------------------------------------------------------- planning step
Step(intent, action, status, decide_next, error) ==
    [intent |-> intent, action |-> action, status |-> status,
     decide_next |-> decide_next, error |-> error]

\* Agent._fallback_planning: the intent -> tool table, decide_next False
FallbackAction(name) ==
    CASE name = "get_weather" -> "weather"
      [] name = "summarize_emails" -> "gmail"
      [] name = "query_knowledge" -> "vdb"
      [] name = "recall_conversation" -> "memory"
      [] OTHER -> "None"

fallback_planning(intent) == Step(intent.name, FallbackAction(intent.name), "planned", FALSE, <<>>)

\* Agent._plan_next_step / _parse_planning_response on a planner output
\* [parsed, action, input_ok, decide_next]
plan_next_step(intent, out) ==
    IF out.parsed
    THEN Step(intent.name, out.action, "planned", out.decide_next, <<>>)
    ELSE fallback_planning(intent)

\* ----------------------------------------------------------- ToolRegistry
RegisteredTools == {"weather", "gmail", "vdb", "memory"}

\* tool_name.split(".", 1)[0]
ToolPrefix(tool_name) ==
    CASE tool_name = "vdb.search" -> "vdb"
      [] tool_name = "weather.current" -> "weather"
      [] OTHER -> tool_name

Envelope(error_key, error, results) ==
    [error_key |-> error_key, error |-> error, results |-> results]

\* ToolRegistry.invoke on an adapter behaviour [ret, error_key, error, results]:
\* a dict passes through, a list becomes {results}, an exception {error: str(e)}
invoke(tool_name, adapter) ==
    LET name == ToolPrefix(tool_name)
    IN  IF name \notin RegisteredTools
        THEN Envelope(TRUE, <<"Unknown tool:", name>>, "absent")
        ELSE IF name = "memory"
             \* ConversationMemoryAdapter.run passes user_id to search: TypeError
             THEN Envelope(TRUE, <<"search() got an unexpected keyword argument">>, "absent")
        ELSE CASE adapter.ret = "raise" -> Envelope(TRUE, adapter.error, "absent")
               [] adapter.ret = "list" -> Envelope(FALSE, <<>>, adapter.results)
               [] adapter.ret = "dict" -> Envelope(adapter.error_key, adapter.error, adapter.results)
               [] OTHER -> Envelope(FALSE, <<>>, "absent")

\* ---- ToolRegistry.invoke in full: tool objects, keyword arguments, results
\* a tool object: the names of its callable attributes and of its other ones
ToolObject(callables, attributes) == [callables |-> callables, attributes |-> attributes]

\* self.tools of a registry with three adapters
RegistryTools(name) ==
    CASE name = "weather" -> ToolObject({"run", "current"}, {"description"})
      [] name = "vdb" -> ToolObject({"query"}, {"description"})
      [] name = "bare" -> ToolObject({}, {"description"})
      [] OTHER -> ToolObject({}, {})

RegistryNames == {"weather", "vdb", "bare"}

\* a value of the "method" keyword: absent, a string, or not a string
MethodValue(kind, name) == [kind |-> kind, name |-> name]

\* if method_override: None and "" are falsy, a number such as 5 is truthy
MethodTruthy(mo) == (mo.kind = "str" /\ mo.name # "") \/ mo.kind = "int"

\* ["run", "query", "current", "execute", "search", "invoke"]
DefaultMethods == <<"run", "query", "current", "execute", "search", "invoke">>

\* candidate_methods: the override first, then the default names not yet in
\* the list
candidate_methods(mo) ==
    IF MethodTruthy(mo)
    THEN <<mo>> \o [i \in 1..Len(SelectSeq(DefaultMethods, LAMBDA n : mo.kind # "str" \/ n # mo.name))
                      |-> MethodValue("str", SelectSeq(DefaultMethods, LAMBDA n : mo.kind # "str" \/ n # mo.name)[i])]
    ELSE [i \in 1..Len(DefaultMethods) |-> MethodValue("str", DefaultMethods[i])]

\* the outcome of invoke: an exception leaving invoke, or the dict returned
InvokeRaised(message) == [raised |-> TRUE, shape |-> "exception", value |-> message]
InvokeReturn(shape, value) == [raised |-> FALSE, shape |-> shape, value |-> value]

\* the loop over candidate_methods: hasattr(tool, candidate) raises TypeError
\* for a candidate that is not a string; the first callable attribute is the
\* method
RECURSIVE find_method(_, _, _)
find_method(tool, candidates, i) ==
    IF i > Len(candidates) THEN [raised |-> FALSE, found |-> FALSE, name |-> ""]
    ELSE IF candidates[i].kind # "str" THEN [raised |-> TRUE, found |-> FALSE, name |-> ""]
    ELSE IF candidates[i].name \in tool.callables
         THEN [raised |-> FALSE, found |-> TRUE, name |-> candidates[i].name]
         ELSE find_method(tool, candidates, i + 1)

\* ToolRegistry.invoke(tool_name, method=mo, params=params, ...) on an
\* adapter method that behaves as ret ("dict", "list", "str", "other",
\* "raise"); params is "absent", "dict", "badkeys" (a dict whose keys are not
\* strings) or "scalar" (not a dict: ignored)
registry_invoke(tool_name, mo, params, ret) ==
    LET name == ToolPrefix(tool_name)
    IN  IF name \notin RegistryNames
        THEN InvokeReturn("error", "Unknown tool")
        ELSE LET m == find_method(RegistryTools(name), candidate_methods(mo), 1)
             IN  IF m.raised THEN InvokeRaised("attribute name must be string")
                 ELSE IF ~m.found THEN InvokeReturn("error", "No callable interface found")
                 ELSE IF params = "badkeys" THEN InvokeReturn("error", "keywords must be strings")
                 ELSE CASE ret = "raise" -> InvokeReturn("error", "boom")
                        [] ret = "dict" -> InvokeReturn("dict", "the dict")
                        [] ret = "list" -> InvokeReturn("results", "the list")
                        [] ret = "str" -> InvokeReturn("text", "the string")
                        [] OTHER -> InvokeReturn("result", "the value")

NoInvocation ==
    [tool_name |-> "", method |-> MethodValue("none", ""), params |-> "absent", ret |-> "dict",
     out |-> InvokeReturn("dict", "the dict")]

\* observation.get("error") is truthy
ErrorTruthy(obs) == obs.error_key /\ obs.error # <<>>

\* not observation.get("results")
NoResults(obs) == obs.results \in {"absent", "empty"}

\* Agent._format_observation, one token per observation
format_observation(obs) ==
    CASE obs.results = "some" -> "Knowledge hits"
      [] obs.results = "empty" -> "No relevant results found."
      [] OTHER -> "observation"

UsedTool(name, status, results) == [name |-> name, status |-> status, results |-> results]

\* ---------------------------------------------------------------- responses
Response(type, has_answer, answer, message, options, intents, steps, used_tools, has_trace, trace) ==
    [type |-> type, has_answer |-> has_answer, answer |-> answer, message |-> message,
     options |-> options, intents |-> intents, steps |-> steps, used_tools |-> used_tools,
     citations |-> <<>>, has_trace |-> has_trace, trace |-> trace, secure_mode |-> FALSE]

NoResp == Response("none", FALSE, <<>>, <<>>, <<>>, <<>>, <<>>, <<>>, FALSE, <<>>)

\* {"type": "answer", "answer": ...} and nothing else
PlainAnswer(answer) == Response("answer", TRUE, answer, <<>>, <<>>, <<>>, <<>>, <<>>, FALSE, <<>>)

Names(intents) == [i \in 1..Len(intents) |-> intents[i].name]

\* ------------------------------------------------------ the running call
\* the locals of one handle / resume call; planner_requests counts the
\* requests of the current intent, planner_total those of the call, handle_args the texts handle was entered
\* with, tool_errors the invocations that raised or returned an error key,
\* cleared whether resume has written the tombstone, search_calls the
\* long-term searches, plan_parsed whether the last planner response parsed,
\* summary the behaviour of the summarizer the call asked,
\* final_answer the answer of _plan_and_execute before the guard sees it,
\* secure_session whether the call before this resume ran in secure mode;
\* parked the position, locals and response of the other call in flight on
\* the same Agent while this one runs
NoParked == [pc |-> "none", call |-> [op |-> "none"], resp |-> [type |-> "none"]]

NoCall ==
    [op |-> "none", cont |-> "none", user_id |-> "u1", session_id |-> "s1",
     text |-> <<>>, secure_mode |-> FALSE, reply |-> <<>>, consumed |-> NoneValue,
     handle_args |-> <<>>, prev_saved |-> 0,
     intents |-> <<>>, idx |-> 0, round_count |-> 0, done |-> FALSE, broke |-> FALSE,
     steps |-> <<>>, trace |-> <<>>, used_tools |-> <<>>, observations |-> <<>>,
     planner_requests |-> 0, planner_total |-> 0, recognizer_calls |-> 0, tool_calls |-> 0, llm_calls |-> 0,
     limit_hit |-> FALSE, tool_failed |-> FALSE, tool_errors |-> 0, cleared |-> FALSE,
     search_calls |-> 0, plan_parsed |-> TRUE, final_answer |-> <<>>, secure_session |-> FALSE,
     classifier |-> [malformed |-> FALSE, ambiguous |-> FALSE, intents |-> <<>>],
     recognized |-> IntentList(<<>>),
     invoked |-> NoInvocation,
     limit |-> short_mem_limit, key |-> "", value |-> NoneValue,
     hits |-> <<>>, context |-> <<>>,
     summary |-> [raised |-> FALSE, text |-> <<>>],
     parked |-> NoParked]

\* entry of _plan_and_execute: the first intent's loop variables
EnterPlan(c, cont, text, intents) ==
    [c EXCEPT !.cont = cont, !.text = text, !.intents = intents, !.idx = 1,
              !.round_count = 0, !.done = FALSE, !.broke = FALSE,
              !.planner_requests = 0, !.planner_total = 0, !.limit_hit = (max_rounds = 0)]

\* a round that does not count itself
NextRoundStuck(round_count) == round_count

\* round_count += 1
NextRound(round_count) == round_count + 1

\* a loop test that lets one round too many in
LoopGuardInclusive(done, round_count, limit) == ~done /\ round_count <= limit

\* while not done and round_count < self.max_rounds
LoopGuard(done, round_count, limit) == ~done /\ round_count < limit

\* a limit test that misses the round that reaches the limit
ReachedLimitStrict(round_count, limit) == round_count > limit

\* if round_count >= self.max_rounds
ReachedLimit(round_count, limit) == round_count >= limit

QaIntents == {"general_qa", "potential_knowledge_qa"}

KnowledgeCutoff == 65

\* ------------------------------------------------- handle, after planning
\* lines 215-268 of handle on the result of _plan_and_execute
HandleFinish(c, result) ==
    LET r1 == IF result.has_answer /\ result.answer # <<>> THEN result
              ELSE IF result.type = "clarification"
                   THEN [result EXCEPT !.has_answer = TRUE, !.answer = result.message]
                   ELSE [result EXCEPT !.has_answer = TRUE, !.answer = IssueAnswer]
    IN  IF r1.type = "clarification"
        THEN LET r2 == [r1 EXCEPT !.intents = Names(c.intents)]
             IN  /\ store' = session_write(store, c.user_id, c.session_id, "pending_context",
                                           PendingJson("tool_failed", c.text, r2.steps), now)
                 /\ resp' = r2
                 /\ UNCHANGED <<short_mem, msg_count, now, longterm, mask_map>>
        ELSE LET updated_context == short_add(short_add(short_mem, "user", c.text, msg_count + 1),
                                              "assistant", r1.answer, msg_count + 2)
                 n == Len(updated_context)
             IN  /\ short_mem' = updated_context
                 /\ msg_count' = msg_count + 2
                 /\ store' = session_write(store, c.user_id, c.session_id, "context",
                                           ContextJson(updated_context, n), now)
                 /\ UNCHANGED now
                 /\ longterm' = IF c.prev_saved < n
                                THEN store_conversation(longterm, c.user_id, c.session_id,
                                                        SubSeq(updated_context, c.prev_saved + 1, n),
                                                        c.prev_saved)
                                ELSE longterm
                 /\ IF c.secure_mode
                    THEN /\ resp' = [r1 EXCEPT !.answer = secure_outbound_text(r1.answer, mask_map),
                                               !.secure_mode = TRUE]
                         /\ mask_map' = <<>>
                    ELSE /\ resp' = r1
                         /\ UNCHANGED mask_map

\* the return of _plan_and_execute: to handle's post-processing, or straight
\* to the caller of resume
Deliver(c, result) ==
    /\ pc' = "idle"
    /\ call' = [c EXCEPT !.final_answer = result.answer]
    /\ UNCHANGED max_rounds
    /\ IF c.cont = "handle"
       THEN HandleFinish(c, result)
       ELSE /\ resp' = result
            /\ UNCHANGED <<short_mem, msg_count, store, now, longterm, mask_map>>

\* ------------------------------------------------------- handle, entry
\* lines 123-211 of handle, entered with the store st0 in second t and
\* the call c0; out is what the classifier LLM returns
HandleBody(c0, st0, t, raw_text, secure_mode, out) ==
    LET chk == inbound(raw_text, mask_map)
        c1 == [c0 EXCEPT !.handle_args = Append(@, raw_text), !.secure_mode = secure_mode]
    IN  /\ UNCHANGED max_rounds
        /\ now' = t
        /\ IF secure_mode /\ ~chk.safe
           THEN /\ resp' = [PlainAnswer(chk.text) EXCEPT !.secure_mode = TRUE]
                /\ pc' = "idle"
                /\ call' = c1
                /\ store' = st0
                /\ UNCHANGED <<short_mem, msg_count, longterm, mask_map>>
           ELSE LET text == IF secure_mode THEN chk.text ELSE raw_text
                    map1 == IF secure_mode THEN chk.mask_map ELSE mask_map
                    merged_context == merge_context(short_mem,
                                         longterm_search(longterm, text, c0.user_id, c0.session_id))
                    rec == recognize_intents(out, text)
                    c2 == [c1 EXCEPT !.text = text, !.recognizer_calls = @ + 1, !.llm_calls = @ + 1,
                                     !.search_calls = @ + 1, !.classifier = out, !.recognized = rec,
                                     !.context = merged_context]
                IN  \E session_ctx \in session_read(st0, c0.user_id, c0.session_id, "context") :
                      LET prev_saved == IF IsObject(session_ctx) THEN session_ctx.longterm_saved ELSE 0
                      IN  IF rec.type = "clarification"
                          THEN /\ store' = session_write(st0, c0.user_id, c0.session_id, "pending_context",
                                               PendingJson("intent_ambiguous", text, <<>>), t)
                               /\ resp' = Response("clarification", FALSE, <<>>, rec.message, rec.options,
                                                   <<>>, <<>>, <<>>, FALSE, <<>>)
                               /\ pc' = "idle"
                               /\ call' = [c2 EXCEPT !.prev_saved = prev_saved]
                               /\ mask_map' = map1
                               /\ UNCHANGED <<short_mem, msg_count, longterm>>
                          ELSE IF \A i \in 1..Len(rec.intents) : rec.intents[i].name = "note_down"
                          THEN LET updated_context == short_add(short_add(short_mem, "user", text, msg_count + 1),
                                                                "assistant", NoteAck, msg_count + 2)
                                   n == Len(updated_context)
                               IN  /\ short_mem' = updated_context
                                   /\ msg_count' = msg_count + 2
                                   /\ store' = session_write(st0, c0.user_id, c0.session_id, "context",
                                                   ContextJson(updated_context, n), t)
                                   /\ longterm' = IF prev_saved < n
                                                  THEN store_conversation(longterm, c0.user_id, c0.session_id,
                                                           SubSeq(updated_context, prev_saved + 1, n), prev_saved)
                                                  ELSE longterm
                                   /\ resp' = Response("answer", TRUE, NoteAck, <<>>, <<>>,
                                                       Names(rec.intents), <<>>, <<>>, TRUE, <<>>)
                                   /\ pc' = "idle"
                                   /\ call' = [c2 EXCEPT !.prev_saved = prev_saved, !.intents = rec.intents]
                                   /\ mask_map' = map1
                          ELSE /\ pc' = "plan"
                               /\ call' = EnterPlan([c2 EXCEPT !.prev_saved = prev_saved],
                                                    "handle", text, rec.intents)
                               /\ store' = st0
                               /\ resp' = NoResp
                               /\ mask_map' = map1
                               /\ UNCHANGED <<short_mem, msg_count, longterm>>

\* Agent.handle(user_id, text, session_id, secure_mode), entered dt seconds
\* after the last call
Handle(user_id, session_id, text, secure_mode, out, dt) ==
    /\ pc = "idle"
    /\ Len(store) < MaxRows
    /\ HandleBody([NoCall EXCEPT !.op = "handle", !.user_id = user_id, !.session_id = session_id],
                  Renumber(store), Clock(store, now + dt), text, secure_mode, out)

\* what resume returns from its except clause
ResumeError(e) == PlainAnswer(<<"An error occurred while resuming:", e>>)

\* lines 279-303 of resume on the pending_context context_data it has read,
\* with the store st0 in second t and the call c0
ResumeBody(c0, st0, t, context_data, user_reply, out) ==
         LET user_id == c0.user_id
             session_id == c0.session_id
             cleared == session_write(st0, user_id, session_id, "pending_context", NoneValue, t)
             stay(c, r, st) == /\ resp' = r
                            /\ pc' = "idle"
                            /\ call' = c
                            /\ store' = st
                            /\ now' = t
                            /\ UNCHANGED <<max_rounds, short_mem, msg_count, longterm, mask_map>>
         IN  IF context_data = NoneValue
             THEN stay(c0, PlainAnswer(NoPendingAnswer), st0)
             ELSE IF LoadsRaises(context_data)
             THEN stay(c0, ResumeError("Expecting value"), st0)
             ELSE IF ~IsObject(context_data)
             THEN stay(c0, ResumeError("'list' object has no attribute 'get'"), st0)
             ELSE IF context_data.clarification_type = "intent_ambiguous"
             THEN LET rec == recognize_intents(out, user_reply)
                      c1 == [c0 EXCEPT !.recognizer_calls = @ + 1, !.llm_calls = @ + 1, !.cleared = TRUE,
                                       !.classifier = out, !.recognized = rec]
                  IN  IF rec.type = "clarification"
                      \* _plan_and_execute iterates the keys of the clarification dict
                      \* and reads intent.name of the first key before any round
                      THEN /\ resp' = ResumeError("'str' object has no attribute 'name'")
                           /\ pc' = "idle"
                           /\ call' = [c1 EXCEPT !.cont = "resume"]
                           /\ store' = cleared
                           /\ now' = t
                           /\ UNCHANGED <<max_rounds, short_mem, msg_count, longterm, mask_map>>
                      ELSE /\ pc' = "plan"
                           /\ call' = EnterPlan(c1, "resume", user_reply, rec.intents)
                           /\ store' = cleared
                           /\ resp' = NoResp
                           /\ now' = t
                           /\ UNCHANGED <<max_rounds, short_mem, msg_count, longterm, mask_map>>
             ELSE IF context_data.clarification_type = "tool_failed"
             THEN IF HasRetry(user_reply)
                  THEN HandleBody([c0 EXCEPT !.cleared = TRUE], cleared, t,
                                  context_data.original_query, FALSE, out)
                  ELSE stay([c0 EXCEPT !.cleared = TRUE], PlainAnswer(CancelAnswer), cleared)
             ELSE HandleBody([c0 EXCEPT !.cleared = TRUE], cleared, t, user_reply, FALSE, out)

\* Agent.resume(user_id, user_reply, session_id), entered dt seconds after
\* the last call
Resume(user_id, session_id, user_reply, out, dt) ==
    /\ pc = "idle"
    /\ Len(store) < MaxRows
    /\ \E context_data \in session_read(store, user_id, session_id, "pending_context") :
         ResumeBody([NoCall EXCEPT !.op = "resume", !.user_id = user_id, !.session_id = session_id,
                                  !.reply = user_reply, !.consumed = context_data,
                                  !.secure_session = call.secure_mode \/ call.secure_session],
                    Renumber(store), Clock(store, now + dt), context_data, user_reply, out)

\* ------------------------------------------------ _plan_and_execute
RetryCancel == <<"Retry", "Cancel">>

\* the tool_failed clarification dict of _plan_and_execute
ToolClarification(message, c) ==
    Response("clarification", FALSE, <<>>, message, RetryCancel,
             Names(c.intents), c.steps, <<>>, TRUE, c.trace)

\* lines 519-528: the step is recorded and done is decided
RecordStep(c, step) ==
    LET should_continue == IF step.action # "finish" THEN step.decide_next ELSE FALSE
    IN  [c EXCEPT !.trace = Append(@, step),
                  !.steps = Append(@, step),
                  !.done = (step.status \in {"finished", "failed"}
                            \/ step.action = "finish"
                            \/ ~should_continue)]

\* one round of the while loop of the current intent: the planner returns
\* p, the adapter behaves as a, an LLM question is answered with qa
PlanRound(p, a, qa) ==
    /\ pc = "plan"
    /\ ~call.broke
    /\ LoopGuard(call.done, call.round_count, max_rounds)
    /\ LET intent == call.intents[call.idx]
           step == plan_next_step(intent, p)
           c1 == [call EXCEPT !.round_count = NextRound(@),
                              !.planner_requests = @ + 1,
                              !.planner_total = @ + 1,
                              !.plan_parsed = p.parsed,
                              !.llm_calls = @ + 1,
                              !.limit_hit = @ \/ (call.round_count + 1 = max_rounds)]
       IN  IF step.action \notin {"None", "finish"}
           THEN IF p.parsed /\ ~p.input_ok
                \* invoke(step.action, **step.input) raises at the call
                THEN LET e == "argument after ** must be a mapping"
                         failed == [step EXCEPT !.status = "failed", !.error = <<e>>]
                         c2 == [c1 EXCEPT !.trace = Append(@, failed), !.tool_failed = TRUE,
                                          !.tool_errors = @ + 1]
                     IN  Deliver(c2, ToolClarification(<<"Tool", step.action, "failed:", e, ". Retry?">>, c2))
                ELSE LET observation == invoke(step.action, a)
                         c2 == [c1 EXCEPT !.tool_calls = @ + 1,
                                          !.tool_errors = IF observation.error_key THEN @ + 1 ELSE @]
                     IN  IF ErrorTruthy(observation)
                         THEN LET failed == [step EXCEPT !.status = "failed", !.error = observation.error]
                                  c3 == [c2 EXCEPT !.used_tools = Append(@, UsedTool(step.action, "failed", observation.results)),
                                                   !.trace = Append(@, failed),
                                                   !.steps = Append(@, failed),
                                                   !.tool_failed = TRUE]
                              IN  Deliver(c3, ToolClarification(
                                        <<"Tool", step.action, "returned an error:">> \o observation.error \o <<". Retry?">>, c3))
                         ELSE IF step.action = "vdb" /\ NoResults(observation)
                         \* no knowledge hit: direct LLM answer, then break
                         THEN LET ok == [step EXCEPT !.status = "succeeded"]
                              IN  /\ call' = [c2 EXCEPT !.llm_calls = @ + 1,
                                                  !.observations = @ \o <<<<"Knowledge search returned no results about the question.">>, qa>>,
                                                  !.used_tools = Append(@, UsedTool("llm_fallback", "succeeded", "absent")),
                                                  !.trace = Append(@, ok),
                                                  !.steps = Append(@, ok),
                                                  !.broke = TRUE]
                                  /\ UNCHANGED <<max_rounds, short_mem, msg_count, store, now, longterm, mask_map, pc, resp>>
                         ELSE LET ok == [step EXCEPT !.status = "succeeded"]
                                  c3 == [c2 EXCEPT !.observations = Append(@, <<format_observation(observation)>>),
                                                   !.used_tools = Append(@, UsedTool(step.action, "succeeded", observation.results))]
                              IN  /\ call' = RecordStep(c3, ok)
                                  /\ UNCHANGED <<max_rounds, short_mem, msg_count, store, now, longterm, mask_map, pc, resp>>
           ELSE IF intent.name \in QaIntents
           THEN LET retrieval == invoke("vdb", a)
                    hit == retrieval.results = "some" /\ a.best_score > KnowledgeCutoff
                    c2 == IF intent.name = "potential_knowledge_qa"
                          THEN [c1 EXCEPT !.tool_calls = @ + 1,
                                          !.tool_errors = IF retrieval.error_key THEN @ + 1 ELSE @,
                                          !.used_tools = Append(@, UsedTool("vdb", "succeeded", retrieval.results)),
                                          !.observations = IF hit THEN Append(@, <<format_observation(retrieval)>>) ELSE @]
                          ELSE c1
                    ok == [step EXCEPT !.status = "succeeded"]
                    c3 == [c2 EXCEPT !.llm_calls = @ + 1, !.observations = Append(@, qa)]
                IN  /\ call' = RecordStep(c3, ok)
                    /\ UNCHANGED <<max_rounds, short_mem, msg_count, store, now, longterm, mask_map, pc, resp>>
           ELSE /\ call' = RecordStep(c1, step)
                /\ UNCHANGED <<max_rounds, short_mem, msg_count, store, now, longterm, mask_map, pc, resp>>

LimitResponse(c) ==
    Response("answer", TRUE, LimitAnswer, <<>>, <<>>, Names(c.intents), c.steps, c.used_tools, TRUE, c.trace)

\* the while loop of the current intent is left: the reasoning-limit
\* return, the next intent, or the end of the for loop
EndIntent ==
    /\ pc = "plan"
    /\ call.broke \/ ~LoopGuard(call.done, call.round_count, max_rounds)
    /\ IF ReachedLimit(call.round_count, max_rounds)
       THEN Deliver(call, LimitResponse(call))
       ELSE /\ IF call.idx < Len(call.intents)
               THEN /\ call' = [call EXCEPT !.idx = @ + 1, !.round_count = 0, !.done = FALSE,
                                            !.broke = FALSE, !.planner_requests = 0,
                                            !.limit_hit = (max_rounds = 0)]
                    /\ pc' = "plan"
               ELSE /\ pc' = "summarize"
                    /\ call' = call
            /\ UNCHANGED <<max_rounds, short_mem, msg_count, store, now, longterm, mask_map, resp>>

\* observations[-5:]
LastN(seq, n) == IF Len(seq) <= n THEN seq ELSE SubSeq(seq, Len(seq) - n + 1, Len(seq))

RECURSIVE Bullets(_)
Bullets(obs) == IF obs = <<>> THEN <<>> ELSE <<"-">> \o Head(obs) \o Bullets(Tail(obs))

\* Agent._format_fallback_answer
format_fallback_answer(observations) ==
    IF observations = <<>> THEN <<"No information available.">>
    ELSE <<"Based on the gathered information:">> \o Bullets(LastN(observations, 5))

\* Agent._summarize_result on the summarizer's behaviour [raised, text]
summarize_result(observations, sum) ==
    IF observations = <<>> THEN NoInfoAnswer
    ELSE IF sum.raised THEN format_fallback_answer(observations)
    ELSE sum.text

\* the metadata of the results of a knowledge search with hits: two chunks of
\* one page and one chunk of another file
Citation(filename, page) == [filename |-> filename, page |-> page]
HitMetadata == <<Citation("a.pdf", 1), Citation("b.pdf", 2), Citation("a.pdf", 1)>>

\* Agent._collect_citations: one (filename, page) entry per vdb result
RECURSIVE collect_citations(_)
collect_citations(used_tools) ==
    IF used_tools = <<>> THEN <<>>
    ELSE LET tool == Head(used_tools)
         IN  (IF tool.name = "vdb" /\ tool.results = "some" THEN HitMetadata ELSE <<>>)
             \o collect_citations(Tail(used_tools))

\* unique: the entries by first occurrence of (filename, page)
RECURSIVE Unique(_)
Unique(citations) ==
    IF citations = <<>> THEN <<>>
    ELSE LET front == Unique(SubSeq(citations, 1, Len(citations) - 1))
             last == citations[Len(citations)]
         IN  IF \E i \in 1..Len(front) : front[i] = last THEN front ELSE Append(front, last)

\* f"{idx}. {filename}, page {page_display}"
CitationLine(idx, c) ==
    CASE idx = 1 /\ c = Citation("a.pdf", 1) -> "1. a.pdf, page 1"
      [] idx = 1 /\ c = Citation("b.pdf", 2) -> "1. b.pdf, page 2"
      [] idx = 2 /\ c = Citation("a.pdf", 1) -> "2. a.pdf, page 1"
      [] idx = 2 /\ c = Citation("b.pdf", 2) -> "2. b.pdf, page 2"
      [] OTHER -> "citation line"

\* Agent._append_citation_block: the entries are deduplicated
append_citation_block(answer, citations) ==
    IF Unique(citations) = <<>> THEN answer
    ELSE RStrip(answer) \o <<"Source:">>
           \o [i \in 1..Len(Unique(citations)) |-> CitationLine(i, Unique(citations)[i])]

\* an empty answer passed on as it is
ensure_answer_lax(answer) == answer

\* if not answer or not answer.strip(): the apology
ensure_answer(answer) == IF answer = <<>> \/ Strip(answer) = <<>> THEN ApologyAnswer ELSE answer

\* lines 542-561: summary, empty-answer fallback, citations
Summarize(sum) ==
    /\ pc = "summarize"
    /\ LET answer0 == summarize_result(call.observations, sum)
           answer1 == ensure_answer(answer0)
           citation_entries == collect_citations(call.used_tools)
           answer == IF citation_entries # <<>> THEN append_citation_block(answer1, citation_entries) ELSE answer1
           c1 == IF call.observations # <<>>
                 THEN [call EXCEPT !.llm_calls = @ + 1, !.summary = sum] ELSE call
       IN  Deliver(c1, [Response("answer", TRUE, answer, <<>>, <<>>, Names(call.intents),
                                 call.steps, call.used_tools, TRUE, call.trace)
                          EXCEPT !.citations = citation_entries])

\* Agent.__init__ of a new process over the same SQLite file
Restart ==
    /\ pc = "idle"
    /\ short_mem' = <<>>
    /\ mask_map' = <<>>
    /\ call' = NoCall
    /\ resp' = NoResp
    /\ UNCHANGED <<max_rounds, msg_count, store, now, longterm, pc>>

\* ------------------------------------------------------------ the inputs
Classifier(malformed, ambiguous, intents) ==
    [malformed |-> malformed, ambiguous |-> ambiguous, intents |-> intents]

Planner(parsed, action, input_ok, decide_next) ==
    [parsed |-> parsed, action |-> action, input_ok |-> input_ok, decide_next |-> decide_next]

Adapter(ret, error_key, error, results, best_score) ==
    [ret |-> ret, error_key |-> error_key, error |-> error, results |-> results,
     best_score |-> best_score]

AdapterOk == Adapter("dict", FALSE, <<>>, "absent", 0)
AdapterHits == Adapter("dict", FALSE, <<>>, "some", 90)
AdapterNoHits == Adapter("dict", FALSE, <<>>, "empty", 0)
AdapterRaises == Adapter("raise", FALSE, <<"boom">>, "absent", 0)
AdapterRaisesBlank == Adapter("raise", FALSE, <<>>, "absent", 0)
AdapterErrorDict == Adapter("dict", TRUE, <<"boom">>, "absent", 0)

Summary(raised, text) == [raised |-> raised, text |-> text]

\* LLMProvider.chat: a backend that fails is caught and answered in text
ChatError == <<"Error: boom">>
chat(backend_failed, text) == IF backend_failed THEN Summary(FALSE, ChatError) ELSE Summary(FALSE, text)

\* the inputs of the session-level specification
Queries == {<<"weather">>}
Replies == {<<"Retry">>, <<"cancel">>}
ClassifierOutputs ==
    {Classifier(TRUE, FALSE, <<>>),
     Classifier(FALSE, FALSE, <<Intent("get_weather", 30)>>)}
PlannerOutputs ==
    {Planner(FALSE, "None", TRUE, FALSE),
     Planner(TRUE, "weather", TRUE, TRUE)}
AdapterOutcomes == {AdapterOk, AdapterRaises}
ChatTexts == {<<"It is sunny">>}
SummaryOutputs == {Summary(FALSE, <<"It is sunny">>)}

\* ---------------------------------------------------------- specification
\* Agent.__init__: the SQLite file may hold a pending_context row left by an
\* earlier process
Init ==
    /\ max_rounds = 2
    /\ short_mem = <<>>
    /\ msg_count = 0
    /\ store \in {<<>>} \cup {<<Row("u1", "s1", "pending_context", c, 0)>> : c \in StalePending}
    /\ now = 0
    /\ longterm = <<>>
    /\ mask_map = <<>>
    /\ pc = "idle"
    /\ call = NoCall
    /\ resp = NoResp

DoHandle == \E u \in Users, s \in Sessions, q \in Queries, out \in ClassifierOutputs :
               Handle(u, s, q, FALSE, out, 1)

DoResume == \E u \in Users, s \in Sessions, r \in Replies, out \in ClassifierOutputs :
               Resume(u, s, r, out, 1)

DoPlanRound == \E p \in PlannerOutputs, a \in AdapterOutcomes, qa \in ChatTexts : PlanRound(p, a, qa)

DoSummarize == \E sum \in SummaryOutputs : Summarize(sum)

Next ==
    \/ DoHandle
    \/ DoResume
    \/ DoPlanRound
    \/ EndIntent
    \/ DoSummarize
    \/ Restart

Spec == Init /\ [][Next]_vars

\* ------------------------------------- calls that run to their return
\* every call the planner, a tool, an LLM or a memory makes returns, so a
\* call that has started takes its next step
LiveClassifierOutputs ==
    ClassifierOutputs \cup {Classifier(FALSE, FALSE, <<Intent("get_weather", 90), Intent("general_qa", 90)>>)}

LiveHandle == \E q \in Queries, out \in LiveClassifierOutputs : Handle("u1", "s1", q, FALSE, out, 1)

LiveResume == \E r \in Replies, out \in LiveClassifierOutputs : Resume("u1", "s1", r, out, 1)

CallStep == DoPlanRound \/ EndIntent \/ DoSummarize

NextLive ==
    \/ LiveHandle
    \/ LiveResume
    \/ DoPlanRound
    \/ EndIntent
    \/ DoSummarize

SpecLive == Init /\ [][NextLive]_vars /\ WF_vars(CallStep)

\* --------------------------------- one handle call, every planner behaviour
PassInputs ==
    {[text |-> <<"mail", "bob@x.io">>, secure_mode |-> TRUE],
     [text |-> <<"mail", "bob@x.io">>, secure_mode |-> FALSE],
     [text |-> <<"5551234567", "bob@x.io", "amy@y.org">>, secure_mode |-> TRUE],
     [text |-> <<"BOMB">>, secure_mode |-> TRUE],
     [text |-> <<"BOMB">>, secure_mode |-> FALSE]}
PassIntentNames == {"get_weather", "general_qa", "potential_knowledge_qa"}
PassIntentLists ==
    {<<n>> : n \in PassIntentNames}
      \cup {<<"general_qa", "get_weather">>, <<"get_weather", "general_qa">>,
            <<"potential_knowledge_qa", "get_weather">>, <<"note_down">>, <<"unknown">>}
PassClassifierOutputs ==
    {Classifier(TRUE, FALSE, <<>>),
     Classifier(FALSE, TRUE, <<>>),
     Classifier(FALSE, FALSE, <<Intent("general_qa", 90), Intent("get_weather", 30)>>)}
      \cup {Classifier(FALSE, FALSE, [i \in 1..Len(ns) |-> Intent(ns[i], 90)]) : ns \in PassIntentLists}
PassPlannerOutputs ==
    {Planner(FALSE, "None", TRUE, FALSE),
     Planner(TRUE, "None", TRUE, TRUE),
     Planner(TRUE, "finish", TRUE, TRUE),
     Planner(TRUE, "weather", TRUE, TRUE),
     Planner(TRUE, "weather", FALSE, TRUE),
     Planner(TRUE, "vdb", TRUE, TRUE)}
PassAdapterOutcomes == {AdapterOk, AdapterHits, AdapterRaises, AdapterRaisesBlank}
PassChatTexts == {<<"It is sunny">>}
PassSummaryOutputs ==
    {chat(FALSE, <<"It is sunny">>), chat(FALSE, <<>>), chat(FALSE, <<" ">>), chat(TRUE, <<>>),
     Summary(TRUE, <<>>),
     Summary(FALSE, <<"[EMAIL_2]", "[MOBILE_3]", "[EMAIL_1]", "10.0.0.1">>),
     Summary(FALSE, <<"a", "bomb">>)}

InitPass ==
    /\ max_rounds \in 0..MaxRoundsCap
    /\ short_mem = <<>>
    /\ msg_count = 0
    /\ store = <<>>
    /\ now = 0
    /\ longterm = <<>>
    /\ mask_map = <<>>
    /\ pc = "idle"
    /\ call = NoCall
    /\ resp = NoResp

PassHandle == \E in \in PassInputs, out \in PassClassifierOutputs :
                 /\ call.op = "none"
                 /\ Handle("u1", "s1", in.text, in.secure_mode, out, 1)

PassPlanRound == \E p \in PassPlannerOutputs, a \in PassAdapterOutcomes, qa \in PassChatTexts :
                    PlanRound(p, a, qa)

PassSummarize == \E sum \in PassSummaryOutputs : Summarize(sum)

NextPass ==
    \/ PassHandle
    \/ PassPlanRound
    \/ EndIntent
    \/ PassSummarize

SpecPass == InitPass /\ [][NextPass]_vars

\* ------------------- a secure-mode handle call and the resume that follows it
SecureInputs == {<<"weather", "bob@x.io">>, <<"weather", "5551234567", "bob@x.io">>}
SecureReplies == {<<"Retry">>, <<"weather", "amy@y.org">>}
SecureSummaryOutputs ==
    {Summary(FALSE, <<"It is sunny">>),
     Summary(FALSE, <<"[EMAIL_1]", "10.0.0.1">>)}

InitSecure ==
    /\ max_rounds = 2
    /\ short_mem = <<>>
    /\ msg_count = 0
    /\ store = <<>>
    /\ now = 0
    /\ longterm = <<>>
    /\ mask_map = <<>>
    /\ pc = "idle"
    /\ call = NoCall
    /\ resp = NoResp

SecureHandle == \E q \in SecureInputs, out \in ClassifierOutputs :
                   /\ call.op = "none"
                   /\ Handle("u1", "s1", q, TRUE, out, 1)

SecureResume == \E r \in SecureReplies, out \in ClassifierOutputs :
                   /\ call.op = "handle"
                   /\ Resume("u1", "s1", r, out, 1)

SecureSummarize == \E sum \in SecureSummaryOutputs : Summarize(sum)

NextSecure ==
    \/ SecureHandle
    \/ SecureResume
    \/ DoPlanRound
    \/ EndIntent
    \/ SecureSummarize

SpecSecure == InitSecure /\ [][NextSecure]_vars

\* --------------------------- two secure handle calls in flight on one Agent
\* api/agent.py: one Agent, so one SecurityGuard and one mask_map, serves
\* every request.  A call blocked in a planner, tool or LLM request gives
\* way to the other call, which runs until it blocks or returns
Switch ==
    /\ call.parked.pc # "none"
    /\ pc' = call.parked.pc
    /\ call' = [call.parked.call EXCEPT
                  !.parked = [pc |-> pc, call |-> [call EXCEPT !.parked = NoParked], resp |-> resp]]
    /\ resp' = call.parked.resp
    /\ UNCHANGED <<max_rounds, short_mem, msg_count, store, now, longterm, mask_map>>

ThreadInput(session_id) == IF session_id = "s1" THEN <<"mail", "bob@x.io">> ELSE <<"mail", "amy@y.org">>

ThreadClassifierOutputs == {Classifier(FALSE, FALSE, <<Intent("get_weather", 90)>>)}

InitThreads ==
    /\ max_rounds = 2
    /\ short_mem = <<>>
    /\ msg_count = 0
    /\ store = <<>>
    /\ now = 0
    /\ longterm = <<>>
    /\ mask_map = <<>>
    /\ pc = "idle"
    /\ call = [NoCall EXCEPT !.session_id = "s1",
                             !.parked = [pc |-> "idle", call |-> [NoCall EXCEPT !.session_id = "s2"],
                                         resp |-> NoResp]]
    /\ resp = NoResp

\* agent.handle(user_id, text, session_id, secure_mode = True) of the request
\* this thread serves
ThreadHandle == \E out \in ThreadClassifierOutputs :
    /\ pc = "idle"
    /\ call.op = "none"
    /\ HandleBody([call EXCEPT !.op = "handle"], Renumber(store), Clock(store, now + 1),
                  ThreadInput(call.session_id), TRUE, out)

NextThreads ==
    \/ ThreadHandle
    \/ DoPlanRound
    \/ EndIntent
    \/ SecureSummarize
    \/ Switch

SpecThreads == InitThreads /\ [][NextThreads]_vars

\* ------------------------------ two resume calls in flight on one session
\* resume reads pending_context (core.py 278) and writes the tombstone in a
\* later statement (289, 294, 297, 302); the other call may run in between
RacePending == PendingJson("tool_failed", <<"weather">>, <<>>)

\* a handle call of session s1 has returned a tool_failed clarification
InitRace ==
    /\ max_rounds = 2
    /\ short_mem = <<>>
    /\ msg_count = 0
    /\ store = <<Row("u1", "s1", "pending_context", RacePending, 0)>>
    /\ now = 0
    /\ longterm = <<>>
    /\ mask_map = <<>>
    /\ pc = "idle"
    /\ call = [NoCall EXCEPT !.parked = [pc |-> "idle", call |-> NoCall, resp |-> NoResp]]
    /\ resp = NoResp

\* line 278: context_data = self.session_mem.read(...)
ThreadResumeRead == \E r \in Replies :
    /\ pc = "idle"
    /\ call.op = "none"
    /\ \E context_data \in session_read(store, call.user_id, call.session_id, "pending_context") :
         /\ pc' = "read"
         /\ call' = [call EXCEPT !.op = "resume", !.reply = r, !.consumed = context_data]
         /\ UNCHANGED <<max_rounds, short_mem, msg_count, store, now, longterm, mask_map, resp>>

\* lines 279-303 on what was read
ThreadResumeAct == \E out \in ClassifierOutputs :
    /\ pc = "read"
    /\ ResumeBody(call, Renumber(store), Clock(store, now + 1), call.consumed, call.reply, out)

NextRace ==
    \/ ThreadResumeRead
    \/ ThreadResumeAct
    \/ DoPlanRound
    \/ EndIntent
    \/ DoSummarize
    \/ Switch

SpecRace == InitRace /\ [][NextRace]_vars

\* ----------------------------------- one handle call of knowledge searches
\* the planner asks for the vdb tool under both of its names and the
\* adapter finds something or nothing
KnowledgeClassifierOutputs ==
    {Classifier(FALSE, FALSE, <<Intent("general_qa", 90)>>),
     Classifier(FALSE, FALSE, <<Intent("general_qa", 90), Intent("get_weather", 90)>>)}
KnowledgePlannerOutputs ==
    {Planner(TRUE, "vdb", TRUE, TRUE),
     Planner(TRUE, "vdb.search", TRUE, TRUE),
     Planner(TRUE, "finish", TRUE, FALSE)}
KnowledgeAdapterOutcomes == {AdapterNoHits, AdapterHits}

InitKnowledge ==
    /\ max_rounds \in 1..MaxRoundsCap
    /\ short_mem = <<>>
    /\ msg_count = 0
    /\ store = <<>>
    /\ now = 0
    /\ longterm = <<>>
    /\ mask_map = <<>>
    /\ pc = "idle"
    /\ call = NoCall
    /\ resp = NoResp

KnowledgeHandle == \E q \in Queries, out \in KnowledgeClassifierOutputs :
                      /\ call.op = "none"
                      /\ Handle("u1", "s1", q, FALSE, out, 1)

KnowledgePlanRound == \E p \in KnowledgePlannerOutputs, a \in KnowledgeAdapterOutcomes, qa \in ChatTexts :
                         PlanRound(p, a, qa)

NextKnowledge ==
    \/ KnowledgeHandle
    \/ KnowledgePlanRound
    \/ EndIntent
    \/ DoSummarize

SpecKnowledge == InitKnowledge /\ [][NextKnowledge]_vars

\* ------------------------------------------- the recognizer on its own
\* the classifier outputs: unparsable or parsed, flagged ambiguous or not,
\* with up to MaxIntents entries, each an intent with a confidence or a value
\* that is not an object
RecTexts == {<<"Weather", "today">>, <<"FIND", "it">>, <<"hello">>}
RecEntries ==
    {Intent("get_weather", 49), Intent("get_weather", 90), Intent("general_qa", 50), NonDictEntry}
RecEntryLists == UNION {[1..n -> RecEntries] : n \in 0..MaxIntents}
RecClassifierOutputs ==
    {Classifier(m, a, es) : m \in BOOLEAN, a \in BOOLEAN, es \in RecEntryLists}

InitRecognize ==
    /\ max_rounds = 2
    /\ short_mem = <<>>
    /\ msg_count = 0
    /\ store = <<>>
    /\ now = 0
    /\ longterm = <<>>
    /\ mask_map = <<>>
    /\ pc = "idle"
    /\ call = NoCall
    /\ resp = NoResp

\* IntentRecognizer.recognize(text, context): one classifier call, then the
\* parse of its output
Recognize(text, out) ==
    /\ pc = "idle"
    /\ call.op = "none"
    /\ call' = [NoCall EXCEPT !.op = "recognize", !.text = text,
                              !.recognizer_calls = 1, !.llm_calls = 1,
                              !.classifier = out,
                              !.recognized = recognize_intents(out, text)]
    /\ UNCHANGED <<max_rounds, short_mem, msg_count, store, now, longterm, mask_map, pc, resp>>

NextRecognize == \E text \in RecTexts, out \in RecClassifierOutputs : Recognize(text, out)

SpecRecognize == InitRecognize /\ [][NextRecognize]_vars

\* ------------------------------------------ the short-term buffer on its own
ShortRoles == {"user", "assistant"}
ShortContents == {<<"a">>, <<"b">>}

\* ShortTermMemory.__init__(limit)
InitShort ==
    /\ max_rounds = 2
    /\ short_mem = <<>>
    /\ msg_count = 0
    /\ store = <<>>
    /\ now = 0
    /\ longterm = <<>>
    /\ mask_map = <<>>
    /\ pc = "idle"
    /\ call \in {[NoCall EXCEPT !.op = "short_mem", !.limit = L] : L \in 1..MaxLimit}
    /\ resp = NoResp

\* ShortTermMemory.add(role, content)
ShortAdd(role, content) ==
    /\ call.op = "short_mem"
    /\ msg_count < MaxAdds
    /\ short_mem' = buffer_add(short_mem, call.limit,
                               [Msg(role, content) EXCEPT !.seq = msg_count + 1])
    /\ msg_count' = msg_count + 1
    /\ UNCHANGED <<max_rounds, store, now, longterm, mask_map, pc, call, resp>>

NextShort == \E role \in ShortRoles, content \in ShortContents : ShortAdd(role, content)

SpecShort == InitShort /\ [][NextShort]_vars

\* ------------------------------------------- the session memory on its own
MemIds == {<<"u1", "s1">>, <<"u2", "s1">>, <<"u1", "s2">>}
MemKeys == {"context", "pending_context"}
MemValues == {GarbageText, JsonList}

\* SessionMemory(SQLiteStore(path)) over an empty file
InitMemory ==
    /\ max_rounds = 2
    /\ short_mem = <<>>
    /\ msg_count = 0
    /\ store = <<>>
    /\ now = 0
    /\ longterm = <<>>
    /\ mask_map = <<>>
    /\ pc = "idle"
    /\ call = [NoCall EXCEPT !.op = "session_mem"]
    /\ resp = NoResp

\* SessionMemory.write(user_id, session_id, key, value), dt seconds after the
\* last write; value None is the tombstone
MemWrite(user_id, session_id, key, value, dt) ==
    /\ call.op \in {"session_mem", "write", "clear"}
    /\ value # NoneValue => Len(store) < MaxMemRows
    /\ LET t == Clock(store, now + dt)
       IN  /\ store' = session_write(Renumber(store), user_id, session_id, key, value, t)
           /\ now' = t
    /\ call' = [NoCall EXCEPT !.op = "write", !.user_id = user_id, !.session_id = session_id,
                              !.key = key, !.value = value]
    /\ UNCHANGED <<max_rounds, short_mem, msg_count, longterm, mask_map, pc, resp>>

\* SessionMemory.clear(user_id, session_id)
MemClear(user_id, session_id) ==
    /\ call.op \in {"session_mem", "write", "clear"}
    /\ store' = session_clear(store, user_id, session_id)
    /\ call' = [NoCall EXCEPT !.op = "clear", !.user_id = user_id, !.session_id = session_id]
    /\ UNCHANGED <<max_rounds, short_mem, msg_count, now, longterm, mask_map, pc, resp>>

NextMemory ==
    \/ \E id \in MemIds, key \in MemKeys, value \in MemValues \cup {NoneValue}, dt \in {0, 1} :
         MemWrite(id[1], id[2], key, value, dt)
    \/ \E id \in MemIds : MemClear(id[1], id[2])

SpecMemory == InitMemory /\ [][NextMemory]_vars

\* ----------------------------------------------- context assembly on its own
MergeMessages == {Msg(r, c) : r \in {"user", "assistant"}, c \in {<<"a">>, <<"b">>}}
MergeChunks == {"c1", "c2"}

\* the short-term buffer holds up to two turns
InitMerge ==
    /\ max_rounds = 2
    /\ short_mem \in UNION {[1..n -> MergeMessages] : n \in {0, 1, 2}}
    /\ msg_count = 0
    /\ store = <<>>
    /\ now = 0
    /\ longterm = <<>>
    /\ mask_map = <<>>
    /\ pc = "idle"
    /\ call = NoCall
    /\ resp = NoResp

\* handle, lines 132 and 144-155: the search returned longterm_context (the
\* empty list when it found nothing or raised), then _merge_context
MergeContext(longterm_context) ==
    /\ pc = "idle"
    /\ call.op = "none"
    /\ call' = [NoCall EXCEPT !.op = "merge", !.hits = longterm_context,
                              !.context = merge_context(short_mem, longterm_context)]
    /\ UNCHANGED <<max_rounds, short_mem, msg_count, store, now, longterm, mask_map, pc, resp>>

NextMerge ==
    \E longterm_context \in UNION {[1..n -> {Hit(c) : c \in MergeChunks}] : n \in 0..top_k} :
       MergeContext(longterm_context)

SpecMerge == InitMerge /\ [][NextMerge]_vars

\* ------------------------------------------------- the registry on its own
InvokeToolNames == {"weather", "weather.current", "vdb", "bare", "gmail"}
InvokeMethods ==
    {MethodValue("none", ""), MethodValue("str", ""), MethodValue("str", "run"),
     MethodValue("str", "current"), MethodValue("str", "description"),
     MethodValue("str", "missing"), MethodValue("int", "")}
InvokeParams == {"absent", "dict", "badkeys", "scalar"}
InvokeBehaviours == {"dict", "list", "str", "other", "raise"}

InitInvoke == InitRecognize

\* one call of ToolRegistry.invoke
Invoke(tool_name, mo, params, ret) ==
    /\ pc = "idle"
    /\ call.op = "none"
    /\ call' = [NoCall EXCEPT !.op = "invoke",
                              !.invoked = [tool_name |-> tool_name, method |-> mo, params |-> params,
                                           ret |-> ret,
                                           out |-> registry_invoke(tool_name, mo, params, ret)]]
    /\ UNCHANGED <<max_rounds, short_mem, msg_count, store, now, longterm, mask_map, pc, resp>>

NextInvoke ==
    \E tool_name \in InvokeToolNames, mo \in InvokeMethods, params \in InvokeParams,
       ret \in InvokeBehaviours : Invoke(tool_name, mo, params, ret)

SpecInvoke == InitInvoke /\ [][NextInvoke]_vars

\* ================================================================ properties
\* the pending_context values a read of the call's session can return
PendingOf(user_id, session_id) == session_read(store, user_id, session_id, "pending_context")

\* C1: in _plan_and_execute, whatever the intents, max_rounds, the planner and
\* the tools do, round_count never exceeds max_rounds and the planner is asked
\* for at most max_rounds steps per intent.
C1_RoundsBounded ==
    /\ call.round_count <= max_rounds
    /\ call.planner_requests <= max_rounds

\* the second intent of a pass has used every round it is allowed
C1_Witness ==
    /\ pc = "plan"
    /\ call.idx = 2
    /\ max_rounds >= 2
    /\ call.round_count = max_rounds
    /\ call.planner_requests = max_rounds

\* the answer a handle call returns at the reasoning limit
IsLimitAnswer(r, c) ==
    /\ r.type = "answer"
    /\ r.has_answer
    /\ r.answer = LimitAnswer
    /\ r.steps = c.steps

\* C2 as stated: whenever round_count reaches max_rounds during a handle
\* call, the call returns the reasoning-limit answer with the steps so far,
\* never a clarification.
C2_LimitAlwaysAnswer ==
    (pc = "idle" /\ call.op = "handle" /\ call.limit_hit) => IsLimitAnswer(resp, call)

\* C2 amended: when round_count reaches max_rounds during a handle call and
\* the tool invocation of that round is not reported failed, the next step of
\* the call is its return, with the reasoning-limit answer and the steps so
\* far, and no later intent is planned; when that invocation is reported
\* failed the call returns the tool_failed clarification.
C2_LimitAnswerUnlessToolFailed ==
    [][/\ (pc = "plan" /\ call.op = "handle" /\ call.limit_hit)
          => (pc' = "idle" /\ call'.idx = call.idx /\ call'.steps = call.steps
              /\ IsLimitAnswer(resp', call))
       /\ (pc' = "idle" /\ call'.op = "handle" /\ call'.limit_hit)
          => IF call'.tool_failed
             THEN resp'.type = "clarification" /\ resp'.options = RetryCancel
             ELSE IsLimitAnswer(resp', call')]_vars

\* a two-intent pass stopped in its first intent by the reasoning limit
C2_Witness ==
    /\ pc = "idle"
    /\ call.op = "handle"
    /\ call.limit_hit
    /\ ~call.tool_failed
    /\ max_rounds >= 1
    /\ Len(call.intents) = 2
    /\ call.idx = 1
    /\ Len(resp.steps) = max_rounds
    /\ resp.answer = LimitAnswer

\* C3 as stated: every tool invocation during handle that raises or returns
\* {error} ends the call with one clarification with options [Retry, Cancel],
\* a persisted pending_context of type tool_failed and a failed step in the
\* returned trace.
C3_ToolErrorClarifies ==
    (pc = "idle" /\ call.op = "handle" /\ call.tool_errors > 0)
      => /\ resp.type = "clarification"
         /\ resp.options = RetryCancel
         /\ \A p \in PendingOf(call.user_id, call.session_id) :
               IsObject(p) /\ p.clarification_type = "tool_failed"
         /\ \E i \in 1..Len(resp.trace) : resp.trace[i].status = "failed"

\* C4 as stated: every clarification handle or resume returns comes with a
\* persisted pending_context, of type tool_failed for a tool failure and
\* intent_ambiguous otherwise.
C4_ClarificationHasPending ==
    (pc = "idle" /\ call.op \in {"handle", "resume"} /\ resp.type = "clarification")
      => \A p \in PendingOf(call.user_id, call.session_id) :
            /\ IsObject(p)
            /\ p.clarification_type = IF call.tool_failed THEN "tool_failed" ELSE "intent_ambiguous"

\* C5 as stated: after every handle or resume that returns an answer no
\* pending_context is stored for the call's (user, session).
C5_AnswerLeavesNoPending ==
    (pc = "idle" /\ call.op \in {"handle", "resume"} /\ resp.type = "answer")
      => PendingOf(call.user_id, call.session_id) = {NoneValue}

\* C6 as stated: every resume that finds a stored pending_context tombstones
\* it before the continuation starts, and a resume right after a resume of
\* the same session that ended in an answer finds none.
C6_ResumeTombstones ==
    [][(pc = "idle" /\ call'.op = "resume")
          => /\ (call'.consumed # NoneValue) => call'.cleared
             /\ (call.op = "resume" /\ resp.type = "answer"
                  /\ call'.user_id = call.user_id /\ call'.session_id = call.session_id)
                => call'.consumed = NoneValue]_vars

\* the replies that contain "retry" in some case, spelled out
RetryWords == {"retry", "Retry", "RETRY", "retrying"}

\* the context rows, without the second they were written in
ContextRows(st) ==
    LET rows == SelectSeq(st, LAMBDA r : r.type = "context")
    IN  [i \in 1..Len(rows) |-> <<rows[i].user_id, rows[i].namespace, rows[i].content>>]

\* C7: a resume on a tool_failed pending_context whose reply contains "retry"
\* in any case enters handle with the stored original_query; with any other
\* reply it returns the cancellation answer at once, without a recognizer,
\* planner, tool or LLM call and without a write to the short-term buffer,
\* the session context or the long-term memory.
C7_RetryOrCancel ==
    [][(pc = "idle" /\ call'.op = "resume" /\ IsObject(call'.consumed)
         /\ call'.consumed.clarification_type = "tool_failed")
          => IF \E i \in 1..Len(call'.reply) : call'.reply[i] \in RetryWords
             THEN /\ call'.handle_args = <<call'.consumed.original_query>>
                  /\ call'.recognizer_calls = 1
             ELSE /\ pc' = "idle"
                  /\ resp' = PlainAnswer(CancelAnswer)
                  /\ call'.handle_args = <<>>
                  /\ call'.recognizer_calls = 0 /\ call'.planner_requests = 0
                  /\ call'.tool_calls = 0 /\ call'.llm_calls = 0
                  /\ short_mem' = short_mem
                  /\ longterm' = longterm
                  /\ ContextRows(store') = ContextRows(store)]_vars

\* the reply "Retry" has re-entered handle with the stored query, which is
\* not the reply
C7_Witness ==
    /\ call.op = "resume"
    /\ IsObject(call.consumed)
    /\ call.consumed.clarification_type = "tool_failed"
    /\ call.reply = <<"Retry">>
    /\ call.handle_args = <<call.consumed.original_query>>
    /\ call.consumed.original_query # call.reply
    /\ call.cleared

\* C8 as stated: a pending_context that is unparseable, not an object or of
\* an unknown clarification_type is cleared by resume and the reply goes
\* through handle as a fresh query; no error response is returned and the bad
\* pending_context does not remain.
C8_BadPendingIsFreshQuery ==
    (call.op = "resume" /\ call.consumed \in StalePending)
      => /\ call.handle_args = <<call.reply>>
         /\ call.consumed \notin PendingOf(call.user_id, call.session_id)
         /\ (pc = "idle" /\ resp.answer # <<>>) => resp.answer[1] # "An error occurred while resuming:"

\* the texts of the exceptions the model raises
ExceptionTexts ==
    {"boom", "Expecting value", "'list' object has no attribute 'get'",
     "'str' object has no attribute 'name'",
     "argument after ** must be a mapping", "search() got an unexpected keyword argument"}

Exposes(text) == \E i \in 1..Len(text) : text[i] \in ExceptionTexts

\* C9 as stated: no response of handle or resume carries the text of an
\* exception in its answer or message.
C9_NoExceptionText ==
    (pc = "idle" /\ call.op \in {"handle", "resume"})
      => ~Exposes(resp.answer) /\ ~Exposes(resp.message)

\* the longterm_saved a read of the session's context can return
SavedOf(st, user_id, session_id) ==
    {IF IsObject(c) THEN c.longterm_saved ELSE 0 : c \in session_read(st, user_id, session_id, "context")}

\* C10 as stated: the longterm_saved persisted in a session's context never
\* decreases, where the session store outlives a restart and the short-term
\* buffer does not.
C10_SavedNonDecreasing ==
    [][\A u \in Users, s \in Sessions :
         \A x \in SavedOf(store, u, s), y \in SavedOf(store', u, s) : y >= x]_vars

\* C11 as stated: across any sequence of handle and resume calls no
\* conversation message is passed to store_conversation more than once.
C11_StoredOnce ==
    \A i, j \in 1..Len(longterm) : longterm[i].seq = longterm[j].seq => i = j

\* C12 as stated: the user message and the assistant answer that a call adds
\* to the short-term buffer are passed to store_conversation by the end of
\* that call, whatever the number of earlier turns.
C12_TurnForwarded ==
    [][\A k \in (msg_count + 1)..msg_count' : \E i \in 1..Len(longterm') : longterm'[i].seq = k]_vars

\* C13 as stated: the guard's mask map is empty before inbound runs and after
\* every turn, whatever response the turn ends with; no entry outlives the
\* turn that created it.
C13_MaskMapTurnScoped ==
    pc = "idle" => mask_map = <<>>

\* the unsafe-topic terms of the inputs, in the cases they come in
UnsafeWords == {"bomb", "BOMB", "Bomb", "kill", "KILL", "Kill"}

Unsafe(text) == \E i \in 1..Len(text) : text[i] \in UnsafeWords

\* the refusal: the fixed text, no intents, steps or tools, nothing called
IsRefusal(r, c) ==
    /\ r.type = "answer"
    /\ r.answer = RefusalText
    /\ r.intents = <<>> /\ r.steps = <<>> /\ r.used_tools = <<>>
    /\ c.recognizer_calls = 0 /\ c.planner_requests = 0 /\ c.llm_calls = 0
    /\ c.tool_calls = 0 /\ c.search_calls = 0

\* C14 as stated: every handle call, whatever secure_mode, whose input has an
\* unsafe-topic term returns the fixed refusal and calls nothing.
C14_RefusalWhateverMode ==
    (call.op = "handle" /\ Unsafe(call.handle_args[1]))
      => pc = "idle" /\ IsRefusal(resp, call)

\* C14 amended: a handle call with secure_mode = true whose input has an
\* unsafe-topic term in any case returns the fixed refusal at once, with empty
\* intents, steps and used_tools, no recognizer, planner, LLM, tool or
\* long-term search call and no memory write; with secure_mode = false the
\* guard is not applied and the input goes to the recognizer.
C14_RefusalInSecureMode ==
    [][(pc = "idle" /\ call'.op = "handle" /\ Unsafe(call'.handle_args[1]))
          => IF call'.secure_mode
             THEN /\ pc' = "idle"
                  /\ IsRefusal(resp', call')
                  /\ short_mem' = short_mem
                  /\ longterm' = longterm
                  /\ Len(store') = Len(store)
             ELSE call'.recognizer_calls = 1]_vars

\* the input BOMB has been refused in secure mode
C14_Witness ==
    /\ pc = "idle"
    /\ call.op = "handle"
    /\ call.secure_mode
    /\ call.handle_args = << <<"BOMB">> >>
    /\ resp.answer = RefusalText
    /\ resp.secure_mode

\* C15 as stated: when the final answer of a guarded handle call matches the
\* unsafe-topic vocabulary the response carries the refusal text and no
\* partial trace: steps, used_tools and trace are empty.
C15_UnsafeAnswerNoTrace ==
    (pc = "idle" /\ call.op = "handle" /\ call.secure_mode /\ resp.type = "answer"
       /\ Unsafe(call.final_answer))
      => /\ resp.answer = RefusalText
         /\ resp.steps = <<>>
         /\ resp.used_tools = <<>>
         /\ resp.trace = <<>>

Placeholders ==
    {"[EMAIL_1]", "[EMAIL_2]", "[EMAIL_3]", "[MOBILE_1]", "[MOBILE_2]", "[MOBILE_3]",
     "[IPADDR_1]", "[IPADDR_2]", "[IPADDR_3]"}

RawPii == {"bob@x.io", "amy@y.org", "5551234567", "10.0.0.1"}

\* C16 as stated: in a conversation running in secure mode the reply given to
\* resume passes through inbound before recognition and the answer resume
\* returns passes through outbound: placeholders restored, new PII redacted.
C16_GuardWrapsResume ==
    (call.op = "resume" /\ call.secure_session)
      => /\ (call.recognizer_calls > 0) => \A i \in 1..Len(call.text) : call.text[i] \notin RawPii
         /\ (pc = "idle" /\ resp.type = "answer")
              => \A i \in 1..Len(resp.answer) : resp.answer[i] \notin (Placeholders \cup {"10.0.0.1"})

\* C17: for a safe input in secure mode, every placeholder that inbound put in
\* the place of a value of the input and that occurs in the final answer is,
\* in the response handle returns, replaced by exactly that value, also with
\* several values of one type and of different types in the input.
C17_PlaceholdersRestored ==
    (pc = "idle" /\ call.op = "handle" /\ call.secure_mode /\ resp.type = "answer"
       /\ call.recognizer_calls = 1 /\ ~Unsafe(call.final_answer))
      => LET raw == call.handle_args[1]
             masked == call.text
         IN  /\ Len(masked) = Len(raw)
             /\ Len(resp.answer) = Len(call.final_answer) \/ call.final_answer = <<>>
             /\ \A p \in 1..Len(raw) : \A i \in 1..Len(call.final_answer) :
                   (masked[p] # raw[p] /\ call.final_answer[i] = masked[p])
                     => resp.answer[i] = raw[p]

\* three values of two types were masked and the answer names all three
C17_Witness ==
    /\ pc = "idle"
    /\ call.op = "handle"
    /\ call.secure_mode
    /\ call.handle_args = << <<"5551234567", "bob@x.io", "amy@y.org">> >>
    /\ call.text = <<"[MOBILE_3]", "[EMAIL_1]", "[EMAIL_2]">>
    /\ call.final_answer = <<"[EMAIL_2]", "[MOBILE_3]", "[EMAIL_1]", "10.0.0.1">>
    /\ resp.answer = <<"amy@y.org", "5551234567", "bob@x.io", "[REDACTED_IP]">>

\* the classifier output parses and every entry of its intents is an object
WellFormed(out) ==
    /\ ~out.malformed
    /\ \A i \in 1..Len(out.intents) : out.intents[i] # [kind |-> "not_an_object"]

LowAt(out, i) ==
    /\ out.intents[i] # [kind |-> "not_an_object"]
    /\ out.intents[i].confidence < 50

IsClarification(r) == r.type = "clarification" /\ r.options # <<>> /\ r.intents = <<>>

\* the keyword fallback of a text, spelled out for the texts of RecTexts
IsFallbackOf(r, text) ==
    /\ r.type = "intents"
    /\ r.intents # <<>>
    /\ r.intents = IF text = <<"Weather", "today">> THEN <<[name |-> "get_weather", confidence |-> 80]>>
                   ELSE IF text = <<"FIND", "it">> THEN <<[name |-> "query_knowledge", confidence |-> 70]>>
                   ELSE <<[name |-> "general_qa", confidence |-> 60]>>

\* C18 as stated: every classifier output in which at least one intent has a
\* confidence below min_confidence makes recognize return a Clarification
\* with non-empty options and no intents.
C18_AnyLowClarifies ==
    (call.op = "recognize" /\ ~call.classifier.malformed
       /\ \E i \in 1..Len(call.classifier.intents) : LowAt(call.classifier, i))
      => IsClarification(call.recognized)

\* C18 amended: for every classifier output that parses and whose intents
\* entries are all objects, one intent below min_confidence, at any position
\* and whatever the confidence of the others, makes recognize return a
\* Clarification with non-empty options and no intents, never a partial list;
\* when an entry that is not an object comes before the first low-confidence
\* intent, recognize returns the keyword fallback instead.
C18_LowConfidenceClarifies ==
    (call.op = "recognize" /\ ~call.classifier.malformed)
      => LET es == call.classifier.intents
         IN  \A i \in 1..Len(es) :
               LowAt(call.classifier, i)
                 => IF \A j \in 1..(i - 1) : es[j] # [kind |-> "not_an_object"]
                    THEN IsClarification(call.recognized)
                    ELSE IsClarification(call.recognized) \/ IsFallbackOf(call.recognized, call.text)

\* a low-confidence intent in the last place, after two confident ones
C18_Witness ==
    /\ call.op = "recognize"
    /\ call.classifier = [malformed |-> FALSE, ambiguous |-> FALSE,
                          intents |-> <<[name |-> "get_weather", confidence |-> 90],
                                        [name |-> "general_qa", confidence |-> 50],
                                        [name |-> "get_weather", confidence |-> 49]>>]
    /\ call.recognized.type = "clarification"
    /\ call.recognized.intents = <<>>

\* C19 as stated: when the classifier call raises or its output is missing,
\* malformed or contains no intents, recognize returns the keyword fallback,
\* a non-empty list of Intents, never a Clarification.
C19_FallbackWheneverNoIntents ==
    (call.op = "recognize" /\ (~WellFormed(call.classifier) \/ call.classifier.intents = <<>>))
      => IsFallbackOf(call.recognized, call.text)

\* C19 amended: when the classifier call raises or its output is missing or
\* cannot be parsed, or parses to no intents without flagging ambiguity, or
\* holds an entry that is not an object with no low-confidence intent before
\* it, recognize returns the keyword fallback, which for every text is a
\* non-empty list of Intents; an output without intents that flags ambiguity,
\* or a low-confidence intent before the bad entry, gives a Clarification.
C19_FallbackIsTotal ==
    call.op = "recognize"
      => LET out == call.classifier
             es == out.intents
             bad == {i \in 1..Len(es) : es[i] = [kind |-> "not_an_object"]}
             low == {i \in 1..Len(es) : LowAt(out, i)}
         IN  /\ (out.malformed \/ (es = <<>> /\ ~out.ambiguous)
                   \/ \E b \in bad : \A l \in low : b < l)
                  => IsFallbackOf(call.recognized, call.text)
             /\ (~out.malformed /\ ((es = <<>> /\ out.ambiguous)
                                     \/ \E l \in low : \A b \in bad : l < b))
                  => IsClarification(call.recognized)

\* an unparsable output on a text without keywords gives the default intent
C19_Witness ==
    /\ call.op = "recognize"
    /\ call.classifier.malformed
    /\ call.text = <<"hello">>
    /\ call.recognized = [type |-> "intents", intents |-> <<[name |-> "general_qa", confidence |-> 60]>>]

\* C20 as stated: a round whose planner response cannot be parsed, or whose
\* planner call raises, gets the fallback step with decide_next = false; the
\* loop performs a concrete action in that round (the step does not stay
\* "planned") and ends after it.
C20_FallbackActs ==
    [][(pc = "plan" /\ call'.round_count = call.round_count + 1 /\ ~call'.plan_parsed)
          => /\ Len(call'.trace) = Len(call.trace) + 1
             /\ LET st == call'.trace[Len(call'.trace)]
                IN  ~st.decide_next /\ st.status # "planned"
             /\ call'.done \/ call'.broke \/ pc' = "idle"]_vars

\* C21 as stated: ToolRegistry.invoke never raises and always returns a dict,
\* for every tool name, keyword arguments (a method override or params of any
\* value) and adapter behaviour: the dict unchanged, {results} for a list,
\* {text} for a string, {result} for another value, {error} when the tool is
\* unknown, has no callable interface, or the adapter raises.
C21_InvokeTotal ==
    call.op = "invoke"
      => LET v == call.invoked
         IN  /\ ~v.out.raised
             /\ v.out.shape \in {"dict", "results", "text", "result", "error"}
             /\ (v.tool_name = "gmail") => v.out.shape = "error"
             /\ (v.tool_name = "bare") => v.out.shape = "error"
             /\ (v.tool_name \in {"weather", "weather.current", "vdb"} /\ v.params # "badkeys")
                  => v.out.shape = CASE v.ret = "dict" -> "dict"
                                     [] v.ret = "list" -> "results"
                                     [] v.ret = "str" -> "text"
                                     [] v.ret = "other" -> "result"
                                     [] OTHER -> "error"

Min(a, b) == IF a < b THEN a ELSE b

\* C22: after n add calls on a buffer of capacity L >= 1 the buffer holds
\* exactly the last min(n, L) added entries in insertion order; an add keeps
\* the entries that stay as they were and evicts the oldest one.
C22_LastEntriesKept ==
    /\ [](call.op = "short_mem"
            => /\ Len(short_mem) = Min(msg_count, call.limit)
               /\ \A i \in 1..Len(short_mem) :
                     short_mem[i].seq = msg_count - Len(short_mem) + i)
    /\ [][(call.op = "short_mem" /\ msg_count' = msg_count + 1)
            => \A i \in 1..Len(short_mem') : \A j \in 1..Len(short_mem) :
                  short_mem'[i].seq = short_mem[j].seq => short_mem'[i] = short_mem[j]]_vars

\* five adds on a buffer of capacity three: the first two were evicted
C22_Witness ==
    /\ call.op = "short_mem"
    /\ call.limit = 3
    /\ msg_count = 5
    /\ Len(short_mem) = 3
    /\ short_mem[1].seq = 3 /\ short_mem[3].seq = 5

\* what read returns for a key, for each way SQL may order rows of one second
ReadOf(st, user_id, session_id, key) == session_read(st, user_id, session_id, key)

Nothing == [fmt |-> "none", obj |-> "none", clarification_type |-> "", original_query |-> <<>>,
            pending_steps |-> <<>>, longterm_saved |-> 0, conversation_history |-> <<>>]

\* C23: after write(user, session, key, None), read(user, session, key)
\* returns None whatever was written to the key before, and goes on returning
\* None until the key is written again.
C23_TombstoneReadsNone ==
    [][/\ (call'.op = "write" /\ call'.value = Nothing)
            => ReadOf(store', call'.user_id, call'.session_id, call'.key) = {Nothing}
       /\ \A id \in MemIds, key \in MemKeys :
            (/\ ReadOf(store, id[1], id[2], key) = {Nothing}
             /\ ~(call'.op = "write" /\ call'.value # Nothing /\ call'.key = key
                    /\ call'.user_id = id[1] /\ call'.session_id = id[2]))
              => ReadOf(store', id[1], id[2], key) = {Nothing}]_vars

\* two values were written to a key, then the tombstone
C23_Witness ==
    /\ call.op = "write"
    /\ call.value = Nothing
    /\ call.user_id = "u1" /\ call.session_id = "s1" /\ call.key = "context"
    /\ Len(store) = 1
    /\ store[1].type = "pending_context" /\ store[1].user_id = "u1" /\ store[1].namespace = "s1"

\* the value of the most recent write to a key since its last tombstone: the
\* rows are kept in the order of their INSERT
LatestWrite(st, user_id, session_id, key) ==
    LET mine == {i \in 1..Len(st) :
                   st[i].user_id = user_id /\ st[i].namespace = session_id /\ st[i].type = key}
    IN  IF mine = {} THEN Nothing
        ELSE st[CHOOSE i \in mine : \A j \in mine : j <= i].content

\* C24 as stated: after any sequence of writes, read(user, session, key)
\* returns the value of the most recent write to the key since its last
\* tombstone, whatever was written to other keys in between and however many
\* values the key has accumulated.
C24_ReadsLatestWrite ==
    call.op \in {"write", "clear"}
      => \A id \in MemIds, key \in MemKeys :
            ReadOf(store, id[1], id[2], key) = {LatestWrite(store, id[1], id[2], key)}

\* C25 as stated: what is persisted as conversation_history under a
\* (user_id, session_id) and what is forwarded to long-term memory under it
\* consists only of turns handled for that same (user_id, session_id).
C25_SessionsIndependent ==
    /\ \A i \in 1..Len(longterm) : \A j \in 1..Len(longterm) :
          longterm[i].seq = longterm[j].seq => longterm[i].session_id = longterm[j].session_id
    /\ \A i \in 1..Len(store) : \A j \in 1..Len(store) :
          (store[i].type = "context" /\ store[j].type = "context")
            => \A a \in 1..Len(store[i].content.conversation_history) :
               \A b \in 1..Len(store[j].content.conversation_history) :
                  store[i].content.conversation_history[a].seq
                     = store[j].content.conversation_history[b].seq
                    => store[i].namespace = store[j].namespace

\* C26: a write, tombstone or clear for (u1, s1) leaves read(u2, s2, k)
\* unchanged for every other (u2, s2) and every key k, and clear(u1, s1) makes
\* read(u1, s1, k) return None for every k.
C26_KeysIsolated ==
    [][call'.op \in {"write", "clear"}
         => /\ \A id \in MemIds, key \in MemKeys :
                  id # <<call'.user_id, call'.session_id>>
                    => ReadOf(store', id[1], id[2], key) = ReadOf(store, id[1], id[2], key)
            /\ call'.op = "clear"
                 => \A key \in MemKeys :
                       ReadOf(store', call'.user_id, call'.session_id, key) = {Nothing}]_vars

\* (u1, s1) was cleared while (u2, s1) holds a value
C26_Witness ==
    /\ call.op = "clear"
    /\ call.user_id = "u1" /\ call.session_id = "s1"
    /\ Len(store) = 1
    /\ store[1].user_id = "u2" /\ store[1].namespace = "s1"
    /\ ReadOf(store, "u2", "s1", store[1].type) = {store[1].content}

\* C27: the assembled context is the short-term turns in their stored order,
\* followed by exactly one system-role turn that names every hit when the
\* long-term search returned at least one hit, and by nothing when it
\* returned none or failed; the synthetic turn is last and occurs at most once.
C27_ContextOrder ==
    call.op = "merge"
      => LET ctx == call.context
             n == Len(short_mem)
         IN  /\ Len(ctx) = IF call.hits # <<>> THEN n + 1 ELSE n
             /\ \A i \in 1..n : ctx[i] = short_mem[i]
             /\ \A i \in 1..Len(ctx) : ctx[i].role = "system" <=> (i = n + 1)
             /\ call.hits # <<>>
                  => \A h \in 1..Len(call.hits) :
                        \E k \in 1..Len(ctx[n + 1].content) :
                           ctx[n + 1].content[k] = call.hits[h].chunk

\* two short-term turns and three hits: one system turn after the two
C27_Witness ==
    /\ call.op = "merge"
    /\ Len(short_mem) = 2
    /\ Len(call.hits) = 3
    /\ Len(call.context) = 3
    /\ call.context[3].role = "system"

\* the (filename, page) pairs of the knowledge-tool outputs of the pass
CollectedPairs(used_tools) ==
    LET hits == SelectSeq(used_tools, LAMBDA t : t.name = "vdb" /\ t.results = "some")
    IN  IF hits = <<>> THEN <<>>
        ELSE [i \in 1..(3 * Len(hits)) |->
                 IF i % 3 = 2 THEN [filename |-> "b.pdf", page |-> 2]
                 ELSE [filename |-> "a.pdf", page |-> 1]]

HasSourceBlock(answer) == \E i \in 1..Len(answer) : answer[i] = "Source:"

\* C28 as stated: in an answer of _plan_and_execute the citation block is
\* appended iff at least one (filename, page) pair was collected in the pass,
\* and the block and the response's citations list each distinct pair exactly
\* once, in order of first occurrence.
C28_CitationsOnce ==
    [][pc = "summarize"
         => LET pairs == CollectedPairs(call.used_tools)
            IN  /\ HasSourceBlock(call'.final_answer) <=> pairs # <<>>
                /\ (pairs = <<>>) => resp'.citations = <<>>
                /\ (pairs # <<>>)
                     => /\ resp'.citations = <<[filename |-> "a.pdf", page |-> 1],
                                               [filename |-> "b.pdf", page |-> 2]>>
                        /\ \E k \in 1..(Len(call'.final_answer) - 2) :
                              /\ call'.final_answer[k] = "Source:"
                              /\ call'.final_answer[k + 1] = "1. a.pdf, page 1"
                              /\ call'.final_answer[k + 2] = "2. b.pdf, page 2"
                              /\ k + 2 = Len(call'.final_answer)]_vars

\* C29: when the final summarization call fails (it raises, or the provider
\* answers its caught failure) or returns an empty or blank result while
\* observations exist, the answer of the pass is the bulleted list of the
\* last observations, followed by the source block when citations were
\* collected
FailedSummary(sum) == sum.raised \/ sum = chat(TRUE, <<>>) \/ Strip(sum.text) = <<>>

BulletedAnswer(observations, used_tools) ==
    LET bullets == format_fallback_answer(observations)
        entries == collect_citations(used_tools)
    IN  IF entries # <<>> THEN append_citation_block(bullets, entries) ELSE bullets

C29_FailedSummaryGivesBullets ==
    [][(pc = "summarize" /\ call.observations # <<>> /\ FailedSummary(call'.summary))
          => call'.final_answer = BulletedAnswer(call.observations, call.used_tools)]_vars

\* C30: every handle call and every resume call returns when each call it
\* makes returns; one call issues at most len(intents) * max_rounds planner
\* requests, and resume enters handle at most once
RequestsBounded ==
    /\ call.planner_total <= Len(call.intents) * max_rounds
    /\ Len(call.handle_args) <= 1

C30_CallsTerminate == []RequestsBounded /\ (pc # "idle" ~> pc = "idle")

\* a resume that entered handle has returned after two intents whose rounds
\* together are more than max_rounds
C30_Witness ==
    /\ pc = "idle"
    /\ call.op = "resume"
    /\ Len(call.handle_args) = 1
    /\ Len(call.intents) = 2
    /\ call.planner_total > max_rounds

\* C31: every response of type "answer" that handle returns has a non-empty
\* answer, and not a blank one either, whatever the planner, the tools and
\* the summarizer returned and in both modes
C31_AnswerNonEmpty ==
    (pc = "idle" /\ call.op = "handle" /\ resp.type = "answer")
        => (resp.answer # <<>> /\ Strip(resp.answer) # <<>>)

\* a secure-mode pass whose summarizer returned a blank text has answered
C31_Witness ==
    /\ pc = "idle" /\ call.op = "handle" /\ resp.type = "answer"
    /\ call.secure_mode
    /\ call.observations # <<>>
    /\ call.summary = chat(FALSE, <<" ">>)
    /\ resp.answer # <<>>

\* C32: two secure-mode handle calls for different sessions, interleaved
\* where they block, each unmask only their own placeholders: no response
\* holds a PII value of the other session's input, and each response is the
\* one the call gives when it runs alone
Returned(c, p) == p = "idle" /\ c.op = "handle" /\ c.final_answer # <<>>

PiiOf(text) == {text[i] : i \in {j \in 1..Len(text) : PiiType(text[j]) # "NONE"}}

AnswerAlone(c) == secure_outbound_text(c.final_answer, inbound(c.handle_args[1], <<>>).mask_map)

OwnPlaceholdersOnly(c, p, r, other) ==
    Returned(c, p) =>
        /\ \A i \in 1..Len(r.answer) : r.answer[i] \notin PiiOf(ThreadInput(other.session_id))
        /\ r.answer = AnswerAlone(c)

C32_InterleavedCallsUnmaskOwn ==
    /\ OwnPlaceholdersOnly(call, pc, resp, call.parked.call)
    /\ OwnPlaceholdersOnly(call.parked.call, call.parked.pc, call.parked.resp, call)

\* C33: the reasoning-limit answer is returned only when an intent used
\* max_rounds rounds and none of them met a termination condition; an intent
\* whose loop has terminated, in round max_rounds or earlier, is followed by
\* the next intent or by the summarization
C33_LimitOnlyWhenUnfinished ==
    [][/\ (pc = "plan" /\ pc' = "idle" /\ call'.final_answer = LimitAnswer)
          => (~call.done /\ ~call.broke)
       /\ (pc = "plan" /\ (call.done \/ call.broke))
          => pc' \in {"plan", "summarize"}]_vars

\* C34: once a tool invocation of a pass has failed (it raised or returned an
\* error envelope) the pass has returned, with the clarification, and no
\* planner request, tool invocation or summarization follows; the short-term
\* buffer, the session context and the long-term memory are as they were
\* before the call, here empty
C34_NothingAfterToolFailure ==
    (call.op = "handle" /\ call.tool_errors > 0)
        => /\ pc = "idle"
           /\ resp.type = "clarification"
           /\ call.tool_errors = 1
           /\ call.summary = NoCall.summary
           /\ short_mem = <<>>
           /\ ContextRows(store) = <<>>
           /\ longterm = <<>>

\* C35: a step whose action resolves to the vdb tool, under the name "vdb" or
\* in the "vdb.method" form, and whose envelope holds zero results and no
\* error gives no clarification: a direct LLM answer is obtained and added to
\* the observations, the step is recorded as succeeded, and the pass goes on
\* to build its final answer from the observations
Last(s) == s[Len(s)]

\* the round from c to c2 recorded a vdb step that found nothing
KnowledgeMiss(c, c2) ==
    /\ Len(c2.trace) = Len(c.trace) + 1
    /\ ToolPrefix(Last(c2.trace).action) = "vdb"
    /\ Len(c2.used_tools) = Len(c.used_tools) + 1
    /\ \/ Last(c2.used_tools).name = "llm_fallback"
       \/ Last(c2.used_tools).results = "empty"

C35_NoResultsGivesDirectAnswer ==
    [][/\ (pc = "plan" /\ KnowledgeMiss(call, call'))
          => /\ pc' = "plan"
             /\ Last(call'.trace).status = "succeeded"
             /\ Last(call'.used_tools).name = "llm_fallback"
             /\ call'.llm_calls = call.llm_calls + 2
             /\ Len(call'.observations) = Len(call.observations) + 2
             /\ Last(call'.observations) \in ChatTexts
       /\ (pc = "plan" /\ call.broke) => pc' \in {"plan", "summarize"}]_vars

\* C36: every Step in the trace of a returned response has a terminal status
\* (succeeded, failed or finished), none is planned or running, whatever the
\* intent and the planned action, null and "finish" included
TerminalStatuses == {"succeeded", "failed", "finished"}

C36_TraceStepsTerminal ==
    (pc = "idle" /\ call.op = "handle")
        => \A i \in 1..Len(resp.trace) : resp.trace[i].status \in TerminalStatuses

\* C37: every Step obtained from the planner is in the trace once, in
\* planning order, succeeded or failed, and the steps of every response are
\* the steps of its trace, so that the pending_steps persisted after a tool
\* failure hold the failed Step
C37_StepsAreTraceSteps ==
    (pc = "idle" /\ call.op = "handle" /\ resp.has_trace)
        => /\ Len(resp.trace) = call.planner_total
           /\ resp.steps = resp.trace
           /\ resp.type = "clarification"
                 => \A p \in PendingOf(call.user_id, call.session_id) :
                       IsObject(p) /\ p.pending_steps = resp.trace

\* C38: the read and the tombstone of resume are two steps.  A resume that
\* reads after the other resume of the session wrote its tombstone, and
\* before that resume stored a new clarification, finds no PendingContext,
\* so serialized resumes consume each PendingContext at most once; two
\* resumes interleaved between the read and the tombstone both consume it
C38_SerializedResumeConsumesOnce ==
    [][(/\ pc = "idle" /\ call.op = "none" /\ pc' = "read"
        /\ call'.parked = call.parked
        /\ call.parked.call.cleared
        /\ call.parked.resp.type # "clarification")
          => call'.consumed = NoneValue]_vars

\* both resumes of the session read the same PendingContext, both wrote the
\* tombstone and both re-ran the original query
C38_Witness ==
    /\ call.op = "resume" /\ call.parked.call.op = "resume"
    /\ call.consumed = RacePending /\ call.parked.call.consumed = RacePending
    /\ call.cleared /\ call.parked.call.cleared
    /\ call.handle_args = <<RacePending.original_query>>
    /\ call.parked.call.handle_args = <<RacePending.original_query>>

\* C39: in a secure-mode handle call with a safe input no value that inbound
\* masked is in the text and the context given to the recognizer, the planner,
\* the tools and the long-term search, nor in what is written to the
\* short-term buffer, the session store and the long-term memory; and the
\* text all of them are made from is the same for an input that differs only
\* in the masked values
Clean(values, text) == \A i \in 1..Len(text) : text[i] \notin values

CleanMessages(values, messages) == \A i \in 1..Len(messages) : Clean(values, messages[i].content)

\* the same input with other values of the same types
OtherValue(tok) ==
    CASE tok = "bob@x.io" -> "amy@y.org"
      [] tok = "amy@y.org" -> "bob@x.io"
      [] OTHER -> tok

Variant(text) == [i \in 1..Len(text) |-> OtherValue(text[i])]

C39_MaskedValuesStayOut ==
    (call.op = "handle" /\ call.secure_mode /\ ~HasBlocked(call.handle_args[1]))
        => LET raw == call.handle_args[1]
               values == PiiOf(raw)
           IN  /\ Clean(values, call.text)
               /\ CleanMessages(values, call.context)
               /\ CleanMessages(values, short_mem)
               /\ \A i \in 1..Len(store) :
                     /\ Clean(values, store[i].content.original_query)
                     /\ CleanMessages(values, store[i].content.conversation_history)
               /\ \A i \in 1..Len(longterm) : Clean(values, longterm[i].text)
               /\ call.text = inbound(Variant(raw), <<>>).text

\* a secure call whose input held two e-mail addresses and a number has
\* written its turn and answered with the values restored
C39_Witness ==
    /\ pc = "idle" /\ call.op = "handle" /\ call.secure_mode
    /\ call.handle_args = << <<"5551234567", "bob@x.io", "amy@y.org">> >>
    /\ Variant(call.handle_args[1]) # call.handle_args[1]
    /\ Len(short_mem) = 2 /\ short_mem[1].content = call.text
    /\ Len(store) = 1 /\ Len(longterm) = 2
    /\ \E i \in 1..Len(resp.answer) : resp.answer[i] = "bob@x.io"

\* C40: when resume handles a PendingContext of type intent_ambiguous and the
\* recognition of the reply yields a Clarification again, resume returns that
\* clarification with non-empty options and a PendingContext of type
\* intent_ambiguous is stored afterwards for a further resume
C40_ClarifiedAgain ==
    (pc = "idle" /\ call.op = "resume" /\ IsObject(call.consumed)
       /\ call.consumed.clarification_type = "intent_ambiguous"
       /\ call.recognized.type = "clarification")
      => /\ resp.type = "clarification"
         /\ resp.options # <<>>
         /\ \A p \in PendingOf(call.user_id, call.session_id) :
               IsObject(p) /\ p.clarification_type = "intent_ambiguous"
====
